---- MODULE Spec2Model ----
(***************************************************************************)
(* The two generated search-index files of the site,                       *)
(*     src/content/tipuesearch_content.js  and  src/unnamed/part_000,      *)
(* and a page context that loads them.  Each file is one script holding    *)
(* the single statement                                                    *)
(*     var tipuesearch = {"pages": [ {...}, {...}, ... ]};                 *)
(* The model keeps the value of every literal of both files and runs the   *)
(* scripts as a JavaScript page context does: the declaration of the       *)
(* script is instantiated, the array literal is evaluated element by       *)
(* element, and the object is then written to the global binding.          *)
(***************************************************************************)
EXTENDS Integers, Sequences, FiniteSets, TLC

\* How many script loads one page context performs in the model.
MaxLoads == 3

----------------------------------------------------------------------------
\* JavaScript values.  A string is the sequence of its UTF-16 code units.

Undefined == [type |-> "undefined"]

Str(s) == [type |-> "string", chars |-> s]

Arr(s) == [type |-> "array", elems |-> s]

\* An object literal: props maps each own key to its value.
Obj(p) == [type |-> "object", props |-> p]

----------------------------------------------------------------------------
\* The array literal under "pages" in src/content/tipuesearch_content.js: 12 object
\* literals in source order, every string literal decoded to its UTF-16 code units.
content_pages ==
  <<
    \* pages[0]: url 'About.html', text of 79 code units
    Obj([title |-> Str(<<65, 98, 111, 117, 116>>),
         text  |-> Str(<<
            84, 104, 105, 115, 32, 105, 115, 32, 32, 104, 116, 116, 112, 115, 58, 47, 47, 103, 105, 116,
            104, 117, 98, 46, 99, 111, 109, 47, 109, 100, 101, 99, 111, 117, 114, 115, 101, 47, 99, 109,
            115, 116, 101, 109, 112, 108, 97, 116, 101, 32, 10, 32, 38651, 33126, 36628, 21161, 35373, 35336, 23460, 33287,
            21332, 21516, 35373, 35336, 23460, 34892, 20107, 26310, 32, 10, 32, 20840, 38913, 27298, 35222, 32, 10, 32, 10 >>),
         tags  |-> Str(<<>>),
         url   |-> Str(<<65, 98, 111, 117, 116, 46, 104, 116, 109, 108>>)]),
    \* pages[1]: url '?????.html', text of 656 code units
    Obj([title |-> Str(<<19977, 36947, 29254, 29702, 35542>>),
         text  |-> Str(<<
            75, 77, 79, 76, 97, 98, 32, 25152, 38283, 35373, 35506, 31243, 30446, 30340, 26159, 23559, 25803, 22312, 27231, 26800,
            24037, 31243, 24107, 38754, 21069, 30340, 19977, 36947, 29254, 44, 32, 30452, 25509, 21033, 29992, 35506, 31243, 35611, 25480, 30340,
            36942, 31243, 44, 32, 19968, 19968, 21576, 29694, 44, 32, 35731, 22823, 23478, 26377, 21450, 26178, 25214, 20986, 31361, 30772,
            36889, 19977, 36947, 38556, 31001, 30340, 27231, 26371, 44, 32, 19981, 20677, 35731, 21508, 33258, 30340, 28507, 33021, 26377, 25152,
            30332, 25582, 44, 32, 21516, 26178, 20063, 24076, 26395, 22823, 23478, 33021, 26356, 33258, 22312, 22320, 38754, 23565, 26410, 20358,
            30340, 26356, 22810, 25361, 25136, 46, 32, 36889, 19977, 36947, 29254, 20998, 21029, 26159, 58, 32, 10, 32, 29702, 35542,
            22522, 30990, 38556, 31001, 32, 23526, 21209, 32244, 32722, 38556, 31001, 32, 30906, 31435, 30446, 27161, 38556, 31001, 32, 10,
            32, 29702, 35542, 22522, 30990, 38556, 31001, 32, 10, 32, 25152, 35586, 30340, 29702, 35542, 22522, 30990, 38556, 31001, 23601,
            26159, 25216, 32887, 39636, 31995, 23416, 29983, 22312, 39640, 20013, 38542, 27573, 32147, 24120, 30095, 24573, 30340, 33521, 25991, 44,
            32, 25976, 23416, 33287, 37007, 36655, 24605, 32771, 33287, 29554, 21462, 23416, 21839, 30340, 22522, 26412, 33021, 21147, 46, 32,
            20063, 23601, 26159, 33521, 25991, 32893, 35498, 35712, 23531, 30340, 22522, 26412, 33021, 21147, 44, 32, 25976, 23416, 22522, 26412,
            33021, 21147, 33287, 20102, 35299, 22914, 20309, 36879, 36942, 37007, 36655, 24605, 32771, 35299, 38988, 44, 32, 20006, 19988, 23416,
            32722, 22914, 20309, 30332, 21839, 44, 32, 22914, 20309, 33287, 20154, 21332, 21516, 21512, 20316, 35299, 27770, 21839, 38988, 30340,
            33021, 21147, 46, 32, 10, 32, 23526, 21209, 32244, 32722, 38556, 31001, 32, 10, 32, 31532, 20108, 36947, 29254, 21063,
            26159, 23526, 21209, 32244, 32722, 38556, 31001, 44, 32, 35377, 22810, 20154, 19981, 39000, 24847, 33457, 26178, 38291, 22312, 31361,
            30772, 19978, 36848, 31532, 19968, 36947, 38556, 31001, 30340, 21407, 22240, 44, 32, 36890, 24120, 26159, 22240, 28858, 19981, 30693,
            36947, 23416, 32722, 36889, 20123, 30456, 23565, 25277, 35937, 30340, 30693, 35672, 26377, 29978, 40636, 29992, 34389, 63, 32, 22240,
            27492, 44, 32, 28858, 20102, 20984, 39023, 31361, 30772, 31532, 19968, 36947, 29254, 30340, 37325, 35201, 24615, 44, 32, 23601,
            24517, 38920, 35201, 36879, 36942, 23526, 38555, 30340, 35506, 31243, 26696, 20363, 44, 32, 35731, 22823, 23478, 20102, 35299, 19968,
            26086, 33021, 31361, 30772, 31532, 19968, 36947, 29254, 30340, 38556, 31001, 24460, 44, 32, 39178, 25104, 25345, 32396, 23416, 32722,
            36889, 20123, 29702, 35542, 22522, 30990, 20839, 23481, 20043, 24460, 44, 32, 23601, 21487, 20197, 30456, 23565, 29992, 27604, 36611,
            26377, 25928, 29575, 30340, 26041, 24335, 35299, 27770, 21508, 31278, 21839, 38988, 46, 32, 10, 32, 20294, 26159, 36889, 38656,
            35201, 23416, 32722, 32773, 20184, 20986, 26178, 38291, 33287, 32784, 24615, 44, 32, 30070, 38754, 23565, 23436, 20840, 38476, 29983,
            35696, 38988, 26178, 44, 32, 23601, 24517, 38920, 27298, 35342, 26159, 21542, 31532, 19968, 36947, 29254, 20173, 28982, 21345, 22312,
            33258, 24049, 33287, 35299, 27770, 26041, 26696, 20013, 38291, 46, 32, 28982, 24460, 29992, 24515, 19981, 26039, 24605, 32771, 44,
            32, 25506, 32034, 33287, 32244, 32722, 20043, 24460, 44, 32, 33509, 36996, 26159, 28961, 27861, 35299, 27770, 21839, 38988, 46,
            32, 23601, 24517, 38920, 35201, 20808, 35430, 33879, 25551, 36848, 21839, 38988, 24460, 20877, 23563, 27714, 20182, 20154, 30340, 21332,
            21161, 46, 32, 10, 32, 20551, 22914, 33021, 26377, 20197, 19978, 30340, 27491, 30906, 23416, 32722, 24907, 24230, 44, 32,
            23601, 26377, 27231, 26371, 22312, 38754, 23565, 21508, 31278, 21839, 38988, 26178, 44, 32, 25345, 32396, 31361, 30772, 21069, 38754,
            30340, 20841, 36947, 29254, 44, 32, 28982, 24460, 30475, 21040, 33258, 24049, 25152, 36861, 27714, 30340, 31532, 19977, 36947, 29254,
            44, 32, 20006, 19988, 27492, 24460, 33021, 22816, 31469, 30433, 20840, 21147, 44, 32, 32763, 38321, 31532, 19977, 36947, 29254,
            30340, 38556, 31001, 44, 32, 31309, 26997, 36948, 25104, 38928, 23450, 30446, 27161, 46, 32, 10, 32, 30906, 31435, 30446,
            27161, 38556, 31001, 32, 10, 32, 20320, 30340, 20154, 29983, 30446, 27161, 26159, 29978, 40636, 63 >>),
         tags  |-> Str(<<>>),
         url   |-> Str(<<19977, 36947, 29254, 29702, 35542, 46, 104, 116, 109, 108>>)]),
    \* pages[2]: url 'Blogger.html', text of 370 code units
    Obj([title |-> Str(<<66, 108, 111, 103, 103, 101, 114>>),
         text  |-> Str(<<
            32178, 35468, 58, 32, 10, 32, 104, 116, 116, 112, 115, 58, 47, 47, 119, 119, 119, 46, 98, 108,
            111, 103, 103, 101, 114, 46, 99, 111, 109, 47, 32, 10, 32, 104, 116, 116, 112, 115, 58, 47,
            47, 98, 108, 111, 103, 46, 103, 101, 116, 112, 101, 108, 105, 99, 97, 110, 46, 99, 111, 109,
            47, 32, 10, 32, 35542, 22727, 58, 32, 10, 32, 104, 116, 116, 112, 115, 58, 47, 47, 119, 119,
            119, 46, 100, 105, 115, 99, 111, 117, 114, 115, 101, 46, 111, 114, 103, 47, 32, 10, 32, 104,
            116, 116, 112, 115, 58, 47, 47, 106, 112, 109, 101, 46, 101, 110, 103, 46, 110, 102, 117, 46,
            101, 100, 117, 46, 116, 119, 32, 10, 32, 104, 116, 116, 112, 115, 58, 47, 47, 102, 111, 114,
            117, 109, 46, 101, 110, 103, 46, 110, 102, 117, 46, 101, 100, 117, 46, 116, 119, 32, 10, 32,
            66, 108, 111, 103, 103, 101, 114, 44, 32, 80, 101, 108, 105, 99, 97, 110, 32, 33287, 32, 68,
            105, 115, 99, 111, 117, 114, 115, 101, 32, 20839, 23481, 33021, 19981, 33021, 25972, 21512, 20006, 21516, 27493, 63,
            32, 10, 32, 104, 116, 116, 112, 115, 58, 47, 47, 109, 100, 101, 99, 111, 117, 114, 115, 101,
            46, 98, 108, 111, 103, 115, 112, 111, 116, 46, 99, 111, 109, 47, 50, 48, 50, 48, 47, 48,
            53, 47, 112, 101, 108, 105, 99, 97, 110, 45, 98, 108, 111, 103, 103, 101, 114, 95, 50, 49,
            46, 104, 116, 109, 108, 32, 32, 32, 10, 32, 104, 116, 116, 112, 115, 58, 47, 47, 109, 101,
            116, 97, 46, 100, 105, 115, 99, 111, 117, 114, 115, 101, 46, 111, 114, 103, 47, 116, 47, 104,
            111, 119, 45, 99, 97, 110, 45, 105, 45, 105, 109, 112, 108, 101, 109, 101, 110, 116, 45, 97,
            45, 98, 108, 111, 103, 45, 112, 97, 103, 101, 45, 105, 110, 45, 100, 105, 115, 99, 111, 117,
            114, 115, 101, 45, 102, 111, 114, 117, 109, 45, 115, 111, 102, 116, 119, 97, 114, 101, 47, 52,
            56, 52, 57, 54, 47, 54, 32, 32, 32, 10 >>),
         tags  |-> Str(<<>>),
         url   |-> Str(<<66, 108, 111, 103, 103, 101, 114, 46, 104, 116, 109, 108>>)]),
    \* pages[3]: url '????.html', text of 798 code units
    Obj([title |-> Str(<<20491, 20154, 38651, 33126>>),
         text  |-> Str(<<
            27231, 26800, 24037, 31243, 24107, 30001, 26044, 24517, 38920, 22312, 20491, 20154, 38651, 33126, 19978, 32362, 35069, 20006, 39023, 31034,
            32, 51, 68, 32, 38646, 32068, 20214, 44, 32, 22240, 27492, 20491, 20154, 38651, 33126, 36890, 24120, 38656, 35201, 37197,
            20633, 29544, 31435, 39023, 31034, 21345, 44, 32, 20854, 22522, 26412, 35215, 26684, 33287, 38651, 31478, 27231, 39006, 20284, 58,
            32, 10, 32, 104, 116, 116, 112, 115, 58, 47, 47, 119, 119, 119, 46, 99, 114, 117, 99, 105,
            97, 108, 46, 116, 119, 47, 97, 114, 116, 105, 99, 108, 101, 115, 47, 102, 111, 114, 45, 103,
            97, 109, 101, 114, 115, 47, 116, 104, 101, 45, 98, 101, 115, 116, 45, 115, 112, 101, 99, 115,
            45, 102, 111, 114, 45, 97, 45, 103, 97, 109, 105, 110, 103, 45, 112, 99, 32, 10, 32, 67,
            80, 85, 32, 40, 32, 67, 101, 110, 116, 114, 97, 108, 32, 80, 114, 111, 99, 101, 115, 115,
            105, 110, 103, 32, 85, 110, 105, 116, 32, 41, 32, 45, 32, 20013, 22830, 34389, 29702, 22120, 32, 10,
            32, 73, 110, 116, 101, 108, 32, 80, 114, 111, 99, 101, 115, 115, 111, 114, 58, 32, 32, 104,
            116, 116, 112, 115, 58, 47, 47, 101, 110, 46, 119, 105, 107, 105, 112, 101, 100, 105, 97, 46,
            111, 114, 103, 47, 119, 105, 107, 105, 47, 76, 105, 115, 116, 95, 111, 102, 95, 73, 110, 116,
            101, 108, 95, 112, 114, 111, 99, 101, 115, 115, 111, 114, 115, 32, 10, 32, 65, 77, 68, 32,
            80, 114, 111, 99, 101, 115, 115, 111, 114, 58, 32, 32, 104, 116, 116, 112, 115, 58, 47, 47,
            101, 110, 46, 119, 105, 107, 105, 112, 101, 100, 105, 97, 46, 111, 114, 103, 47, 119, 105, 107,
            105, 47, 76, 105, 115, 116, 95, 111, 102, 95, 65, 77, 68, 95, 112, 114, 111, 99, 101, 115,
            115, 111, 114, 115, 32, 10, 32, 65, 82, 77, 32, 65, 114, 99, 104, 105, 116, 101, 99, 116,
            117, 114, 101, 58, 32, 32, 104, 116, 116, 112, 115, 58, 47, 47, 101, 110, 46, 119, 105, 107,
            105, 112, 101, 100, 105, 97, 46, 111, 114, 103, 47, 119, 105, 107, 105, 47, 65, 82, 77, 95,
            97, 114, 99, 104, 105, 116, 101, 99, 116, 117, 114, 101, 32, 10, 32, 65, 112, 112, 108, 101,
            32, 68, 101, 115, 105, 103, 110, 101, 100, 32, 80, 114, 111, 99, 101, 115, 115, 111, 114, 58,
            160, 32, 104, 116, 116, 112, 115, 58, 47, 47, 101, 110, 46, 119, 105, 107, 105, 112, 101, 100,
            105, 97, 46, 111, 114, 103, 47, 119, 105, 107, 105, 47, 65, 112, 112, 108, 101, 45, 100, 101,
            115, 105, 103, 110, 101, 100, 95, 112, 114, 111, 99, 101, 115, 115, 111, 114, 115, 32, 32, 12288,
            32, 10, 32, 70, 85, 76, 76, 32, 72, 68, 32, 40, 32, 72, 105, 103, 104, 32, 68, 101,
            102, 105, 110, 105, 116, 105, 111, 110, 32, 41, 32, 10, 32, 77, 111, 116, 104, 101, 114, 98,
            111, 97, 114, 100, 32, 32, 20027, 27231, 26495, 32, 10, 32, 82, 65, 77, 32, 40, 32, 82, 97,
            110, 100, 111, 109, 45, 65, 99, 99, 101, 115, 115, 32, 77, 101, 109, 111, 114, 121, 32, 41,
            32, 10, 32, 68, 68, 82, 32, 40, 32, 68, 111, 117, 98, 108, 101, 32, 68, 97, 116, 97,
            32, 82, 97, 116, 101, 32, 41, 32, 10, 32, 20309, 35586, 32, 72, 68, 68, 47, 83, 83, 68,
            63, 32, 26377, 20309, 24046, 21029, 63, 32, 10, 32, 20309, 35586, 32, 82, 80, 77, 63, 32, 10, 32,
            20309, 35586, 32, 65, 84, 65, 12289, 80, 65, 84, 65, 12289, 33287, 32, 83, 65, 84, 65, 32, 36899,
            25509, 22496, 63, 32, 26377, 20309, 24046, 21029, 63, 32, 10, 32, 20309, 35586, 32, 86, 105, 100, 101, 111,
            32, 67, 97, 114, 100, 63, 32, 10, 32, 20309, 35586, 32, 102, 112, 115, 63, 32, 10, 32, 20309,
            35586, 32, 68, 86, 73, 63, 32, 10, 32, 20309, 35586, 32, 72, 68, 77, 73, 63, 32, 10, 32,
            20309, 35586, 32, 32, 76, 69, 68, 32, 63, 32, 10, 32, 20309, 35586, 32, 68, 105, 114, 101, 99,
            116, 88, 63, 32, 10, 32, 20309, 35586, 32, 32, 87, 97, 116, 116, 32, 63, 32, 10, 32, 20309,
            35586, 32, 32, 80, 111, 119, 101, 114, 32, 63, 32, 10, 32, 20309, 35586, 32, 72, 122, 32, 40,
            32, 72, 101, 114, 116, 122, 32, 41, 63, 32, 10, 32, 67, 111, 109, 112, 117, 116, 101, 114,
            32, 77, 111, 110, 105, 116, 111, 114, 32, 10, 32, 20309, 35586, 32, 112, 112, 105, 63 >>),
         tags  |-> Str(<<>>),
         url   |-> Str(<<20491, 20154, 38651, 33126, 46, 104, 116, 109, 108>>)]),
    \* pages[4]: url 'Network.html', text of 2973 code units
    Obj([title |-> Str(<<78, 101, 116, 119, 111, 114, 107>>),
         text  |-> Str(<<
            85, 110, 100, 101, 114, 115, 116, 97, 110, 100, 105, 110, 103, 32, 98, 97, 110, 100, 119, 105,
            100, 116, 104, 32, 66, 97, 110, 100, 119, 105, 100, 116, 104, 32, 114, 101, 102, 101, 114, 115,
            32, 116, 111, 32, 116, 104, 101, 32, 100, 97, 116, 97, 32, 114, 97, 116, 101, 32, 116, 104,
            97, 116, 32, 105, 115, 32, 115, 117, 112, 112, 111, 114, 116, 101, 100, 32, 98, 121, 32, 116,
            104, 101, 32, 110, 101, 116, 119, 111, 114, 107, 32, 99, 111, 110, 110, 101, 99, 116, 105, 111,
            110, 32, 111, 114, 32, 116, 104, 101, 32, 105, 110, 116, 101, 114, 102, 97, 99, 101, 115, 32,
            116, 104, 97, 116, 32, 99, 111, 110, 110, 101, 99, 116, 32, 116, 111, 32, 116, 104, 101, 32,
            110, 101, 116, 119, 111, 114, 107, 46, 32, 73, 116, 32, 114, 101, 112, 114, 101, 115, 101, 110,
            116, 115, 32, 98, 111, 116, 104, 32, 118, 111, 108, 117, 109, 101, 32, 97, 110, 100, 32, 116,
            105, 109, 101, 44, 32, 114, 101, 112, 114, 101, 115, 101, 110, 116, 105, 110, 103, 32, 116, 104,
            101, 32, 97, 109, 111, 117, 110, 116, 32, 111, 102, 32, 100, 97, 116, 97, 32, 116, 104, 97,
            116, 32, 99, 97, 110, 32, 98, 101, 32, 116, 114, 97, 110, 115, 109, 105, 116, 116, 101, 100,
            32, 98, 101, 116, 119, 101, 101, 110, 32, 116, 119, 111, 32, 112, 111, 105, 110, 116, 115, 32,
            105, 110, 32, 97, 32, 115, 101, 116, 32, 112, 101, 114, 105, 111, 100, 32, 111, 102, 32, 116,
            105, 109, 101, 46, 32, 73, 116, 32, 105, 115, 32, 117, 115, 117, 97, 108, 108, 121, 32, 101,
            120, 112, 114, 101, 115, 115, 101, 100, 32, 105, 110, 32, 116, 101, 114, 109, 115, 32, 111, 102,
            32, 98, 105, 116, 115, 32, 112, 101, 114, 32, 115, 101, 99, 111, 110, 100, 32, 40, 98, 112,
            115, 41, 44, 32, 111, 114, 32, 115, 111, 109, 101, 116, 105, 109, 101, 115, 32, 105, 110, 32,
            98, 121, 116, 101, 115, 32, 112, 101, 114, 32, 115, 101, 99, 111, 110, 100, 32, 40, 66, 112,
            115, 41, 46, 32, 78, 101, 116, 119, 111, 114, 107, 32, 98, 97, 110, 100, 119, 105, 100, 116,
            104, 32, 114, 101, 112, 114, 101, 115, 101, 110, 116, 115, 32, 116, 104, 101, 32, 99, 97, 112,
            97, 99, 105, 116, 121, 32, 111, 102, 32, 116, 104, 101, 32, 110, 101, 116, 119, 111, 114, 107,
            32, 99, 111, 110, 110, 101, 99, 116, 105, 111, 110, 44, 32, 116, 104, 111, 117, 103, 104, 32,
            105, 116, 39, 115, 32, 105, 109, 112, 111, 114, 116, 97, 110, 116, 32, 116, 111, 32, 117, 110,
            100, 101, 114, 115, 116, 97, 110, 100, 32, 116, 104, 101, 32, 100, 105, 115, 116, 105, 110, 99,
            116, 105, 111, 110, 32, 98, 101, 116, 119, 101, 101, 110, 32, 116, 104, 101, 111, 114, 101, 116,
            105, 99, 97, 108, 32, 116, 104, 114, 111, 117, 103, 104, 112, 117, 116, 32, 97, 110, 100, 32,
            114, 101, 97, 108, 45, 119, 111, 114, 108, 100, 32, 114, 101, 115, 117, 108, 116, 115, 32, 119,
            104, 101, 110, 32, 102, 105, 103, 117, 114, 105, 110, 103, 32, 111, 117, 116, 32, 116, 104, 101,
            32, 114, 105, 103, 104, 116, 32, 98, 97, 110, 100, 119, 105, 100, 116, 104, 32, 102, 111, 114,
            109, 117, 108, 97, 32, 102, 111, 114, 32, 121, 111, 117, 114, 32, 110, 101, 116, 119, 111, 114,
            107, 46, 32, 70, 111, 114, 32, 101, 120, 97, 109, 112, 108, 101, 44, 32, 97, 32, 49, 48,
            48, 48, 66, 65, 83, 69, 45, 84, 32, 45, 45, 32, 119, 104, 105, 99, 104, 32, 117, 115,
            101, 115, 32, 117, 110, 115, 104, 105, 101, 108, 100, 101, 100, 32, 116, 119, 105, 115, 116, 101,
            100, 45, 112, 97, 105, 114, 32, 99, 97, 98, 108, 101, 115, 32, 45, 45, 32, 71, 105, 103,
            97, 98, 105, 116, 32, 69, 116, 104, 101, 114, 110, 101, 116, 32, 40, 71, 98, 69, 41, 32,
            110, 101, 116, 119, 111, 114, 107, 32, 99, 97, 110, 32, 116, 104, 101, 111, 114, 101, 116, 105,
            99, 97, 108, 108, 121, 32, 115, 117, 112, 112, 111, 114, 116, 32, 49, 44, 48, 48, 48, 32,
            109, 101, 103, 97, 98, 105, 116, 115, 32, 112, 101, 114, 32, 115, 101, 99, 111, 110, 100, 32,
            40, 77, 98, 112, 115, 41, 44, 32, 98, 117, 116, 32, 116, 104, 105, 115, 32, 108, 101, 118,
            101, 108, 32, 99, 97, 110, 32, 110, 101, 118, 101, 114, 32, 114, 101, 97, 108, 108, 121, 32,
            98, 101, 32, 97, 99, 104, 105, 101, 118, 101, 100, 32, 105, 110, 32, 112, 114, 97, 99, 116,
            105, 99, 101, 32, 98, 101, 99, 97, 117, 115, 101, 32, 111, 102, 32, 104, 97, 114, 100, 119,
            97, 114, 101, 32, 97, 110, 100, 32, 115, 121, 115, 116, 101, 109, 115, 32, 115, 111, 102, 116,
            119, 97, 114, 101, 32, 111, 118, 101, 114, 104, 101, 97, 100, 46, 32, 79, 110, 101, 32, 112,
            111, 105, 110, 116, 32, 116, 111, 32, 99, 111, 110, 115, 105, 100, 101, 114, 32, 119, 104, 101,
            110, 32, 116, 104, 105, 110, 107, 105, 110, 103, 32, 97, 98, 111, 117, 116, 32, 104, 111, 119,
            32, 116, 111, 32, 99, 97, 108, 99, 117, 108, 97, 116, 101, 32, 98, 97, 110, 100, 119, 105,
            100, 116, 104, 32, 110, 101, 101, 100, 115, 32, 111, 110, 32, 121, 111, 117, 114, 32, 110, 101,
            116, 119, 111, 114, 107, 32, 105, 115, 32, 116, 104, 105, 115, 58, 32, 66, 97, 110, 100, 119,
            105, 100, 116, 104, 32, 115, 104, 111, 117, 108, 100, 32, 110, 111, 116, 32, 98, 101, 32, 99,
            111, 110, 102, 117, 115, 101, 100, 32, 119, 105, 116, 104, 32, 116, 104, 114, 111, 117, 103, 104,
            112, 117, 116, 44, 32, 119, 104, 105, 99, 104, 32, 114, 101, 102, 101, 114, 115, 32, 116, 111,
            32, 115, 112, 101, 101, 100, 46, 32, 87, 104, 105, 108, 101, 32, 104, 105, 103, 104, 45, 98,
            97, 110, 100, 119, 105, 100, 116, 104, 32, 110, 101, 116, 119, 111, 114, 107, 115, 32, 97, 114,
            101, 32, 111, 102, 116, 101, 110, 32, 102, 97, 115, 116, 44, 32, 116, 104, 97, 116, 32, 105,
            115, 32, 110, 111, 116, 32, 97, 108, 119, 97, 121, 115, 32, 116, 104, 101, 32, 99, 97, 115,
            101, 46, 32, 65, 32, 104, 101, 108, 112, 102, 117, 108, 32, 109, 101, 116, 97, 112, 104, 111,
            114, 32, 119, 104, 101, 110, 32, 116, 104, 105, 110, 107, 105, 110, 103, 32, 97, 98, 111, 117,
            116, 32, 98, 97, 110, 100, 119, 105, 100, 116, 104, 32, 105, 115, 32, 99, 97, 114, 115, 32,
            111, 110, 32, 97, 32, 104, 105, 103, 104, 119, 97, 121, 46, 32, 65, 32, 104, 105, 103, 104,
            45, 98, 97, 110, 100, 119, 105, 100, 116, 104, 32, 110, 101, 116, 119, 111, 114, 107, 32, 105,
            115, 32, 108, 105, 107, 101, 32, 97, 32, 115, 105, 120, 45, 108, 97, 110, 101, 32, 104, 105,
            103, 104, 119, 97, 121, 32, 116, 104, 97, 116, 32, 99, 97, 110, 32, 102, 105, 116, 32, 104,
            117, 110, 100, 114, 101, 100, 115, 32, 111, 102, 32, 99, 97, 114, 115, 32, 97, 116, 32, 97,
            110, 121, 32, 103, 105, 118, 101, 110, 32, 109, 111, 109, 101, 110, 116, 46, 32, 65, 32, 108,
            111, 119, 45, 98, 97, 110, 100, 119, 105, 100, 116, 104, 32, 110, 101, 116, 119, 111, 114, 107,
            32, 105, 115, 32, 108, 105, 107, 101, 32, 97, 32, 115, 105, 110, 103, 108, 101, 45, 108, 97,
            110, 101, 32, 114, 111, 97, 100, 32, 105, 110, 32, 119, 104, 105, 99, 104, 32, 111, 110, 101,
            32, 99, 97, 114, 32, 113, 117, 101, 117, 101, 115, 32, 100, 105, 114, 101, 99, 116, 108, 121,
            32, 98, 101, 104, 105, 110, 100, 32, 97, 110, 111, 116, 104, 101, 114, 46, 32, 65, 108, 116,
            104, 111, 117, 103, 104, 32, 116, 104, 101, 32, 108, 97, 114, 103, 101, 32, 104, 105, 103, 104,
            119, 97, 121, 32, 105, 115, 32, 108, 105, 107, 101, 108, 121, 32, 116, 111, 32, 109, 111, 118,
            101, 32, 118, 101, 104, 105, 99, 108, 101, 115, 32, 102, 97, 115, 116, 101, 114, 44, 32, 114,
            117, 115, 104, 45, 104, 111, 117, 114, 32, 116, 114, 97, 102, 102, 105, 99, 32, 99, 97, 110,
            32, 101, 97, 115, 105, 108, 121, 32, 98, 114, 105, 110, 103, 32, 99, 97, 114, 115, 32, 97,
            110, 100, 32, 116, 114, 117, 99, 107, 115, 32, 116, 111, 32, 97, 32, 115, 116, 97, 110, 100,
            115, 116, 105, 108, 108, 46, 32, 79, 114, 44, 32, 112, 101, 114, 104, 97, 112, 115, 44, 32,
            116, 104, 101, 32, 99, 97, 114, 115, 32, 99, 97, 110, 110, 111, 116, 32, 103, 101, 116, 32,
            111, 110, 116, 111, 32, 116, 104, 101, 32, 104, 105, 103, 104, 119, 97, 121, 32, 113, 117, 105,
            99, 107, 108, 121, 32, 98, 101, 99, 97, 117, 115, 101, 32, 105, 116, 39, 115, 32, 99, 108,
            111, 103, 103, 101, 100, 32, 119, 105, 116, 104, 32, 108, 97, 114, 103, 101, 32, 100, 101, 108,
            105, 118, 101, 114, 121, 32, 116, 114, 117, 99, 107, 115, 32, 116, 104, 97, 116, 32, 116, 97,
            107, 101, 32, 117, 112, 32, 97, 32, 108, 111, 116, 32, 111, 102, 32, 115, 112, 97, 99, 101,
            32, 111, 110, 32, 116, 104, 101, 32, 114, 111, 97, 100, 46, 32, 83, 105, 109, 105, 108, 97,
            114, 108, 121, 44, 32, 101, 118, 101, 110, 32, 97, 32, 104, 105, 103, 104, 45, 98, 97, 110,
            100, 119, 105, 100, 116, 104, 32, 110, 101, 116, 119, 111, 114, 107, 32, 99, 97, 110, 32, 114,
            117, 110, 32, 115, 108, 111, 119, 108, 121, 32, 105, 110, 32, 116, 104, 101, 32, 102, 97, 99,
            101, 32, 111, 102, 32, 112, 114, 111, 98, 108, 101, 109, 115, 44, 32, 115, 117, 99, 104, 32,
            97, 115, 32, 99, 111, 110, 103, 101, 115, 116, 105, 111, 110, 32, 97, 110, 100, 32, 98, 97,
            110, 100, 119, 105, 100, 116, 104, 45, 104, 117, 110, 103, 114, 121, 32, 97, 112, 112, 108, 105,
            99, 97, 116, 105, 111, 110, 115, 46, 32, 84, 104, 101, 115, 101, 32, 118, 101, 114, 121, 32,
            112, 111, 105, 110, 116, 115, 32, 109, 97, 107, 101, 32, 99, 97, 108, 99, 117, 108, 97, 116,
            105, 110, 103, 32, 98, 97, 110, 100, 119, 105, 100, 116, 104, 32, 114, 101, 113, 117, 105, 114,
            101, 109, 101, 110, 116, 115, 32, 97, 32, 99, 104, 97, 108, 108, 101, 110, 103, 101, 44, 32,
            121, 101, 116, 32, 116, 104, 101, 32, 99, 111, 110, 115, 101, 113, 117, 101, 110, 99, 101, 115,
            32, 111, 102, 32, 103, 101, 116, 116, 105, 110, 103, 32, 116, 104, 101, 32, 98, 97, 110, 100,
            119, 105, 100, 116, 104, 32, 102, 111, 114, 109, 117, 108, 97, 32, 119, 114, 111, 110, 103, 32,
            97, 114, 101, 32, 99, 111, 110, 115, 105, 100, 101, 114, 97, 98, 108, 101, 46, 32, 73, 102,
            32, 121, 111, 117, 32, 100, 111, 110, 39, 116, 32, 112, 114, 111, 99, 117, 114, 101, 32, 101,
            110, 111, 117, 103, 104, 32, 98, 97, 110, 100, 119, 105, 100, 116, 104, 44, 32, 121, 111, 117,
            32, 97, 108, 108, 32, 98, 117, 116, 32, 103, 117, 97, 114, 97, 110, 116, 101, 101, 32, 116,
            104, 101, 32, 110, 101, 116, 119, 111, 114, 107, 32, 119, 105, 108, 108, 32, 114, 117, 110, 32,
            115, 108, 111, 119, 108, 121, 46, 32, 72, 111, 119, 101, 118, 101, 114, 44, 32, 115, 105, 103,
            110, 105, 102, 105, 99, 97, 110, 116, 108, 121, 32, 111, 118, 101, 114, 112, 114, 111, 118, 105,
            115, 105, 111, 110, 105, 110, 103, 32, 98, 97, 110, 100, 119, 105, 100, 116, 104, 32, 99, 97,
            110, 32, 98, 101, 32, 99, 111, 115, 116, 45, 112, 114, 111, 104, 105, 98, 105, 116, 105, 118,
            101, 32, 102, 111, 114, 32, 109, 111, 115, 116, 32, 101, 110, 116, 101, 114, 112, 114, 105, 115,
            101, 115, 46, 32, 83, 111, 44, 32, 104, 111, 119, 32, 100, 111, 32, 121, 111, 117, 32, 100,
            101, 116, 101, 114, 109, 105, 110, 101, 32, 116, 104, 101, 32, 114, 105, 103, 104, 116, 32, 102,
            111, 114, 109, 117, 108, 97, 32, 116, 104, 97, 116, 32, 119, 105, 108, 108, 32, 109, 101, 101,
            116, 32, 121, 111, 117, 114, 32, 98, 97, 110, 100, 119, 105, 100, 116, 104, 32, 114, 101, 113,
            117, 105, 114, 101, 109, 101, 110, 116, 115, 63, 32, 84, 104, 101, 32, 112, 114, 111, 99, 101,
            115, 115, 32, 98, 101, 103, 105, 110, 115, 32, 119, 105, 116, 104, 32, 97, 115, 107, 105, 110,
            103, 32, 116, 104, 101, 32, 114, 105, 103, 104, 116, 32, 113, 117, 101, 115, 116, 105, 111, 110,
            115, 58, 32, 87, 104, 97, 116, 32, 97, 112, 112, 108, 105, 99, 97, 116, 105, 111, 110, 115,
            32, 97, 114, 101, 32, 117, 115, 101, 114, 115, 32, 114, 117, 110, 110, 105, 110, 103, 44, 32,
            97, 110, 100, 32, 119, 104, 97, 116, 32, 105, 115, 32, 116, 104, 101, 32, 112, 101, 114, 102,
            111, 114, 109, 97, 110, 99, 101, 32, 115, 101, 114, 118, 105, 99, 101, 45, 108, 101, 118, 101,
            108, 32, 97, 103, 114, 101, 101, 109, 101, 110, 116, 32, 102, 111, 114, 32, 116, 104, 101, 115,
            101, 32, 97, 112, 112, 108, 105, 99, 97, 116, 105, 111, 110, 115, 63, 32, 73, 32, 107, 110,
            111, 119, 32, 115, 111, 109, 101, 32, 110, 101, 116, 119, 111, 114, 107, 32, 109, 97, 110, 97,
            103, 101, 114, 115, 32, 119, 104, 111, 32, 97, 114, 101, 32, 111, 110, 108, 121, 32, 99, 111,
            110, 99, 101, 114, 110, 101, 100, 32, 119, 105, 116, 104, 32, 104, 111, 119, 32, 109, 97, 110,
            121, 32, 117, 115, 101, 114, 115, 32, 97, 114, 101, 32, 111, 110, 32, 97, 32, 118, 105, 114,
            116, 117, 97, 108, 32, 76, 65, 78, 46, 32, 87, 104, 97, 116, 32, 121, 111, 117, 32, 114,
            101, 97, 108, 108, 121, 32, 110, 101, 101, 100, 32, 116, 111, 32, 107, 110, 111, 119, 32, 105,
            115, 32, 119, 104, 97, 116, 32, 116, 104, 101, 32, 117, 115, 101, 114, 115, 32, 119, 105, 108,
            108, 32, 98, 101, 32, 100, 111, 105, 110, 103, 32, 111, 110, 32, 116, 104, 101, 32, 110, 101,
            116, 119, 111, 114, 107, 46, 32, 73, 116, 39, 115, 32, 112, 111, 115, 115, 105, 98, 108, 101,
            32, 116, 104, 97, 116, 32, 50, 48, 48, 32, 117, 115, 101, 114, 115, 32, 119, 105, 108, 108,
            32, 99, 97, 117, 115, 101, 32, 108, 101, 115, 115, 32, 111, 102, 32, 97, 32, 98, 111, 116,
            116, 108, 101, 110, 101, 99, 107, 32, 116, 104, 97, 110, 32, 97, 32, 103, 114, 111, 117, 112,
            32, 111, 102, 32, 116, 104, 114, 101, 101, 32, 117, 115, 101, 114, 115, 32, 116, 104, 97, 116,
            32, 114, 101, 97, 108, 108, 121, 32, 98, 101, 97, 116, 115, 32, 116, 104, 101, 32, 104, 101,
            99, 107, 32, 111, 117, 116, 32, 111, 102, 32, 116, 104, 101, 32, 110, 101, 116, 119, 111, 114,
            107, 32, 98, 101, 99, 97, 117, 115, 101, 32, 111, 102, 32, 115, 111, 109, 101, 32, 102, 117,
            110, 107, 121, 32, 99, 108, 105, 101, 110, 116, 45, 115, 101, 114, 118, 101, 114, 32, 97, 112,
            112, 108, 105, 99, 97, 116, 105, 111, 110, 32, 111, 114, 32, 101, 120, 116, 101, 110, 115, 105,
            118, 101, 32, 117, 115, 101, 32, 111, 102, 32, 97, 32, 98, 97, 110, 100, 119, 105, 100, 116,
            104, 45, 104, 101, 97, 118, 121, 32, 115, 101, 114, 118, 105, 99, 101, 44, 32, 108, 105, 107,
            101, 32, 104, 105, 103, 104, 45, 100, 101, 102, 105, 110, 105, 116, 105, 111, 110, 32, 118, 105,
            100, 101, 111, 32, 99, 111, 110, 102, 101, 114, 101, 110, 99, 105, 110, 103, 46, 32, 10, 32,
            10, 32, 20102, 35299, 32, 32, 104, 116, 116, 112, 115, 58, 47, 47, 119, 119, 119, 46, 119, 105,
            114, 101, 115, 104, 97, 114, 107, 46, 111, 114, 103, 32, 32, 30340, 29992, 27861, 44, 32, 20006, 34249,
            20197, 25552, 21319, 32178, 36335, 38971, 23532, 30340, 20351, 29992, 25928, 33021, 21450, 23433, 20840, 46, 32, 10, 32, 36817,
            31471, 19979, 36617, 32, 10, 32, 104, 116, 116, 112, 58, 47, 47, 97, 46, 107, 109, 111, 108, 46,
            105, 110, 102, 111, 58, 56, 56, 47, 87, 105, 114, 101, 115, 104, 97, 114, 107, 45, 119, 105,
            110, 54, 52, 45, 51, 46, 52, 46, 50, 46, 101, 120, 101 >>),
         tags  |-> Str(<<>>),
         url   |-> Str(<<78, 101, 116, 119, 111, 114, 107, 46, 104, 116, 109, 108>>)]),
    \* pages[5]: url 'Switch.html', text of 12512 code units
    Obj([title |-> Str(<<83, 119, 105, 116, 99, 104>>),
         text  |-> Str(<<
            78, 111, 116, 32, 97, 108, 108, 32, 115, 119, 105, 116, 99, 104, 101, 115, 32, 97, 114, 101,
            32, 99, 114, 101, 97, 116, 101, 100, 32, 101, 113, 117, 97, 108, 46, 32, 10, 32, 20358, 28304,
            32, 10, 32, 104, 116, 116, 112, 115, 58, 47, 47, 119, 119, 119, 46, 99, 105, 115, 99, 111,
            46, 99, 111, 109, 47, 99, 47, 101, 110, 47, 117, 115, 47, 112, 114, 111, 100, 117, 99, 116,
            115, 47, 115, 119, 105, 116, 99, 104, 101, 115, 47, 105, 110, 100, 101, 120, 46, 104, 116, 109,
            108, 35, 126, 112, 114, 111, 100, 117, 99, 116, 115, 32, 10, 32, 104, 116, 116, 112, 115, 58,
            47, 47, 119, 119, 119, 46, 99, 105, 115, 99, 111, 46, 99, 111, 109, 47, 99, 47, 100, 97,
            109, 47, 101, 110, 47, 117, 115, 47, 112, 114, 111, 100, 117, 99, 116, 115, 47, 99, 111, 108,
            108, 97, 116, 101, 114, 97, 108, 47, 115, 119, 105, 116, 99, 104, 101, 115, 47, 99, 97, 116,
            97, 108, 121, 115, 116, 45, 57, 51, 48, 48, 45, 115, 101, 114, 105, 101, 115, 45, 115, 119,
            105, 116, 99, 104, 101, 115, 47, 110, 98, 45, 48, 54, 45, 117, 112, 103, 114, 97, 100, 105,
            110, 103, 45, 99, 97, 116, 45, 57, 51, 48, 48, 45, 102, 99, 45, 99, 116, 101, 45, 101,
            110, 46, 112, 100, 102, 32, 10, 32, 105, 110, 116, 101, 114, 110, 97, 108, 108, 121, 32, 116,
            111, 32, 97, 32, 115, 119, 105, 116, 99, 104, 32, 97, 32, 115, 112, 101, 99, 105, 97, 108,
            105, 122, 101, 100, 32, 104, 97, 114, 100, 119, 97, 114, 101, 32, 105, 115, 32, 110, 101, 101,
            100, 101, 100, 32, 116, 111, 32, 109, 111, 118, 101, 32, 102, 114, 97, 109, 101, 115, 32, 98,
            101, 116, 119, 101, 101, 110, 32, 112, 111, 114, 116, 115, 46, 32, 84, 104, 105, 115, 32, 115,
            112, 101, 99, 105, 102, 105, 99, 32, 112, 97, 114, 116, 32, 99, 97, 110, 32, 98, 101, 32,
            99, 97, 108, 108, 101, 100, 32, 98, 97, 99, 107, 112, 108, 97, 110, 101, 32, 40, 32972, 26495,
            41, 32, 111, 114, 32, 105, 110, 32, 115, 111, 109, 101, 32, 99, 97, 115, 101, 115, 32, 119,
            101, 32, 116, 97, 108, 107, 32, 111, 102, 32, 115, 119, 105, 116, 99, 104, 105, 110, 103, 32,
            102, 97, 98, 114, 105, 99, 32, 40, 20132, 25563, 32080, 27083, 41, 46, 32, 87, 104, 101, 110, 32,
            116, 104, 101, 32, 102, 111, 114, 119, 97, 114, 100, 105, 110, 103, 32, 99, 97, 112, 97, 98,
            105, 108, 105, 116, 105, 101, 115, 32, 111, 102, 32, 97, 32, 98, 97, 99, 107, 112, 108, 97,
            110, 101, 32, 111, 114, 32, 115, 119, 105, 116, 99, 104, 105, 110, 103, 32, 102, 97, 98, 114,
            105, 99, 32, 97, 114, 101, 32, 103, 114, 101, 97, 116, 101, 114, 32, 116, 104, 101, 110, 32,
            116, 104, 101, 32, 115, 117, 109, 32, 111, 102, 32, 115, 112, 101, 101, 100, 115, 32, 111, 102,
            32, 97, 108, 108, 32, 112, 111, 114, 116, 115, 32, 40, 99, 111, 117, 110, 116, 101, 100, 32,
            116, 119, 105, 99, 101, 32, 111, 110, 101, 32, 102, 111, 114, 32, 116, 120, 32, 97, 110, 100,
            32, 111, 110, 101, 32, 114, 120, 32, 100, 105, 114, 101, 99, 116, 105, 111, 110, 41, 32, 119,
            101, 32, 99, 97, 108, 108, 32, 116, 104, 101, 32, 115, 119, 105, 116, 99, 104, 105, 110, 103,
            32, 102, 97, 98, 114, 105, 99, 32, 110, 111, 110, 32, 98, 108, 111, 99, 107, 105, 110, 103,
            58, 32, 116, 114, 97, 102, 102, 105, 99, 32, 98, 101, 116, 119, 101, 101, 110, 32, 97, 32,
            112, 97, 105, 114, 32, 111, 102, 32, 112, 111, 114, 116, 115, 32, 105, 115, 32, 110, 111, 116,
            32, 105, 110, 102, 108, 117, 101, 110, 99, 101, 100, 32, 98, 121, 32, 119, 104, 97, 116, 32,
            116, 114, 97, 102, 102, 105, 99, 32, 105, 115, 32, 101, 120, 99, 104, 97, 110, 103, 101, 100,
            32, 111, 110, 32, 97, 108, 108, 32, 111, 116, 104, 101, 114, 32, 112, 111, 114, 116, 115, 46,
            32, 84, 104, 101, 32, 102, 111, 114, 119, 97, 114, 100, 105, 110, 103, 32, 114, 97, 116, 101,
            32, 105, 115, 32, 101, 120, 112, 114, 101, 115, 115, 101, 100, 32, 105, 110, 32, 112, 97, 99,
            107, 101, 116, 32, 112, 101, 114, 32, 115, 101, 99, 111, 110, 100, 115, 32, 97, 110, 100, 32,
            101, 120, 112, 114, 101, 115, 115, 101, 115, 32, 104, 111, 119, 32, 109, 97, 110, 121, 32, 112,
            97, 99, 107, 101, 116, 115, 32, 112, 101, 114, 32, 115, 101, 99, 111, 110, 100, 32, 97, 114,
            101, 32, 110, 101, 101, 100, 101, 100, 32, 116, 111, 32, 114, 101, 97, 99, 104, 32, 97, 32,
            99, 101, 114, 116, 97, 105, 110, 32, 116, 114, 97, 102, 102, 105, 99, 32, 118, 111, 108, 117,
            109, 101, 32, 40, 116, 104, 114, 111, 117, 103, 104, 112, 111, 117, 116, 41, 32, 67, 108, 101,
            97, 114, 108, 121, 32, 102, 111, 114, 119, 97, 114, 100, 105, 110, 103, 32, 114, 97, 116, 101,
            32, 100, 101, 112, 101, 110, 100, 115, 32, 111, 110, 32, 102, 114, 97, 109, 101, 32, 115, 105,
            122, 101, 46, 32, 73, 100, 101, 97, 108, 108, 121, 32, 97, 32, 98, 97, 99, 107, 112, 108,
            97, 110, 101, 32, 115, 119, 105, 116, 99, 104, 105, 110, 103, 32, 102, 97, 98, 114, 105, 99,
            32, 115, 104, 111, 117, 108, 100, 32, 98, 101, 32, 110, 111, 110, 32, 98, 108, 111, 99, 107,
            105, 110, 103, 32, 102, 111, 114, 32, 101, 118, 101, 114, 121, 32, 102, 114, 97, 109, 101, 32,
            115, 105, 122, 101, 32, 105, 110, 99, 108, 117, 100, 105, 110, 103, 32, 116, 104, 101, 32, 115,
            109, 97, 108, 108, 101, 115, 116, 32, 111, 110, 101, 115, 32, 40, 54, 52, 32, 98, 121, 116,
            101, 115, 32, 105, 110, 32, 101, 116, 104, 101, 114, 110, 101, 116, 32, 115, 116, 97, 110, 100,
            97, 114, 100, 41, 32, 98, 117, 116, 32, 105, 110, 32, 114, 101, 97, 108, 105, 116, 121, 32,
            109, 111, 115, 116, 32, 100, 101, 118, 105, 99, 101, 115, 32, 99, 97, 110, 32, 98, 101, 32,
            110, 111, 110, 32, 98, 108, 111, 99, 107, 105, 110, 103, 32, 102, 111, 114, 32, 97, 110, 32,
            97, 118, 101, 114, 97, 103, 101, 32, 115, 105, 122, 101, 32, 111, 102, 32, 52, 48, 48, 32,
            98, 121, 116, 101, 115, 46, 32, 98, 97, 110, 100, 119, 105, 100, 116, 104, 58, 32, 116, 104,
            101, 32, 115, 112, 101, 101, 100, 32, 111, 102, 32, 116, 114, 97, 102, 102, 105, 99, 46, 32,
            116, 111, 32, 99, 111, 110, 118, 101, 114, 116, 32, 98, 101, 116, 119, 101, 101, 110, 32, 102,
            111, 114, 119, 97, 114, 100, 105, 110, 103, 32, 114, 97, 116, 101, 32, 97, 110, 100, 32, 117,
            115, 101, 100, 32, 98, 97, 110, 100, 119, 105, 100, 116, 104, 32, 119, 101, 32, 110, 101, 101,
            100, 32, 116, 111, 32, 116, 97, 107, 101, 32, 105, 110, 32, 97, 99, 99, 111, 117, 110, 116,
            32, 115, 111, 109, 101, 32, 115, 112, 101, 99, 105, 102, 105, 99, 32, 97, 115, 112, 101, 99,
            116, 115, 32, 111, 102, 32, 101, 116, 104, 101, 114, 110, 101, 116, 58, 32, 101, 97, 99, 104,
            32, 102, 114, 97, 109, 101, 32, 104, 97, 115, 32, 97, 110, 32, 56, 32, 98, 121, 116, 101,
            32, 112, 114, 101, 97, 109, 98, 108, 101, 32, 116, 104, 97, 116, 32, 105, 115, 32, 117, 115,
            101, 100, 32, 116, 111, 32, 97, 108, 108, 111, 119, 32, 116, 111, 32, 112, 111, 116, 101, 110,
            116, 105, 97, 108, 32, 114, 101, 99, 101, 105, 118, 101, 114, 32, 116, 111, 32, 115, 121, 110,
            99, 104, 114, 111, 110, 105, 122, 101, 32, 119, 105, 116, 104, 32, 116, 104, 101, 32, 115, 105,
            103, 110, 97, 108, 32, 98, 101, 116, 119, 101, 101, 110, 32, 116, 119, 111, 32, 102, 114, 97,
            109, 101, 115, 32, 97, 32, 109, 105, 110, 105, 109, 117, 109, 32, 115, 105, 108, 101, 110, 99,
            101, 32, 105, 110, 116, 101, 114, 118, 97, 108, 32, 109, 117, 115, 116, 32, 101, 120, 105, 115,
            116, 32, 116, 111, 32, 97, 108, 108, 111, 119, 32, 114, 101, 99, 101, 105, 118, 101, 114, 32,
            116, 111, 32, 100, 105, 115, 99, 114, 105, 109, 105, 110, 97, 116, 101, 32, 98, 101, 116, 119,
            101, 101, 110, 32, 116, 119, 111, 32, 102, 114, 97, 109, 101, 115, 32, 112, 114, 101, 97, 109,
            98, 108, 101, 32, 97, 110, 100, 32, 105, 110, 116, 101, 114, 32, 102, 114, 97, 109, 101, 32,
            103, 97, 112, 32, 99, 111, 117, 110, 116, 115, 32, 102, 111, 114, 32, 50, 48, 44, 50, 32,
            98, 121, 116, 101, 115, 46, 32, 83, 111, 32, 103, 105, 118, 101, 110, 32, 97, 110, 32, 105,
            80, 32, 112, 97, 99, 107, 101, 116, 32, 111, 102, 32, 115, 105, 122, 101, 32, 78, 32, 116,
            104, 101, 32, 101, 116, 104, 101, 114, 110, 101, 116, 32, 102, 114, 97, 109, 101, 32, 104, 97,
            115, 32, 115, 105, 122, 101, 32, 78, 43, 49, 56, 160, 32, 40, 104, 101, 97, 100, 101, 114,
            32, 49, 52, 32, 98, 121, 116, 101, 115, 44, 32, 70, 67, 83, 32, 52, 32, 98, 121, 116,
            101, 41, 32, 98, 117, 116, 32, 99, 111, 117, 110, 116, 115, 32, 97, 115, 32, 40, 78, 43,
            49, 56, 43, 50, 48, 44, 50, 41, 42, 56, 32, 111, 110, 32, 119, 105, 114, 101, 32, 56,
            32, 105, 115, 32, 110, 117, 109, 98, 101, 114, 32, 111, 102, 32, 98, 105, 116, 115, 32, 105,
            110, 32, 97, 32, 98, 121, 116, 101, 32, 119, 105, 116, 104, 32, 116, 104, 105, 115, 32, 107,
            105, 110, 100, 32, 111, 102, 32, 99, 97, 108, 99, 117, 108, 97, 116, 105, 111, 110, 32, 117,
            115, 105, 110, 103, 32, 102, 114, 97, 109, 101, 115, 32, 111, 102, 32, 109, 105, 110, 105, 109,
            117, 109, 32, 115, 105, 122, 101, 32, 54, 52, 32, 98, 121, 116, 101, 115, 32, 121, 111, 117,
            32, 110, 101, 101, 100, 32, 49, 52, 56, 56, 48, 48, 48, 32, 102, 114, 97, 109, 101, 115,
            32, 112, 101, 114, 32, 115, 101, 99, 111, 110, 100, 32, 97, 110, 100, 32, 112, 101, 114, 32,
            100, 105, 114, 101, 99, 116, 105, 111, 110, 32, 116, 111, 32, 102, 105, 108, 108, 32, 97, 32,
            71, 69, 32, 112, 111, 114, 116, 46, 32, 66, 101, 32, 97, 108, 115, 111, 32, 97, 119, 97,
            114, 101, 32, 116, 104, 97, 116, 32, 97, 108, 108, 32, 102, 105, 103, 117, 114, 101, 115, 32,
            121, 111, 117, 32, 115, 101, 101, 32, 115, 117, 109, 32, 116, 120, 32, 97, 110, 100, 32, 114,
            120, 32, 100, 105, 114, 101, 99, 116, 105, 111, 110, 115, 32, 115, 111, 32, 105, 102, 32, 97,
            32, 115, 119, 105, 116, 99, 104, 32, 104, 97, 115, 32, 49, 48, 48, 32, 77, 32, 112, 112,
            115, 32, 99, 97, 112, 97, 98, 105, 108, 105, 116, 121, 32, 116, 104, 105, 115, 32, 97, 99,
            99, 111, 117, 110, 116, 115, 32, 102, 111, 114, 32, 97, 32, 99, 101, 114, 116, 97, 105, 110,
            32, 110, 117, 109, 98, 101, 114, 32, 111, 102, 32, 71, 69, 32, 112, 111, 114, 116, 115, 32,
            97, 116, 32, 49, 32, 71, 98, 112, 115, 32, 102, 117, 108, 108, 32, 100, 117, 112, 108, 101,
            120, 46, 32, 10, 32, 68, 111, 32, 110, 111, 116, 32, 99, 111, 110, 102, 117, 115, 101, 32,
            116, 104, 101, 32, 115, 112, 101, 101, 100, 32, 111, 102, 32, 116, 104, 101, 32, 115, 116, 97,
            99, 107, 119, 105, 115, 101, 32, 114, 105, 110, 103, 32, 119, 105, 116, 104, 32, 116, 104, 101,
            32, 105, 110, 116, 101, 114, 110, 97, 108, 32, 115, 119, 105, 116, 99, 104, 105, 110, 103, 32,
            102, 97, 98, 114, 105, 99, 32, 111, 102, 32, 101, 97, 99, 104, 32, 115, 116, 97, 99, 107,
            32, 109, 101, 109, 98, 101, 114, 44, 32, 116, 104, 101, 121, 32, 97, 114, 101, 32, 100, 105,
            102, 102, 101, 114, 101, 110, 116, 58, 32, 116, 104, 101, 32, 105, 110, 116, 101, 114, 110, 97,
            108, 32, 115, 119, 105, 116, 99, 104, 105, 110, 103, 32, 102, 97, 98, 114, 105, 99, 32, 115,
            104, 111, 117, 108, 100, 32, 98, 101, 32, 117, 115, 101, 100, 32, 102, 111, 114, 32, 116, 114,
            97, 102, 102, 105, 99, 32, 98, 101, 116, 119, 101, 101, 110, 32, 112, 111, 114, 116, 115, 32,
            111, 110, 32, 116, 104, 101, 32, 115, 97, 109, 101, 32, 115, 116, 97, 99, 107, 32, 109, 101,
            109, 98, 101, 114, 32, 100, 101, 118, 105, 99, 101, 44, 32, 116, 104, 101, 32, 115, 116, 97,
            99, 107, 119, 105, 115, 101, 32, 98, 97, 110, 100, 119, 105, 100, 116, 104, 32, 115, 104, 111,
            117, 108, 100, 32, 98, 101, 32, 117, 115, 101, 100, 32, 119, 104, 101, 110, 32, 116, 114, 97,
            102, 102, 105, 99, 32, 109, 117, 115, 116, 32, 102, 108, 111, 119, 32, 98, 101, 116, 119, 101,
            101, 110, 32, 112, 111, 114, 116, 115, 32, 108, 111, 99, 97, 116, 101, 100, 32, 111, 110, 32,
            100, 105, 102, 102, 101, 114, 101, 110, 116, 32, 115, 116, 97, 99, 107, 32, 109, 101, 109, 98,
            101, 114, 115, 46, 32, 78, 111, 116, 101, 58, 32, 116, 104, 105, 115, 32, 105, 115, 32, 106,
            117, 115, 116, 32, 109, 121, 32, 97, 115, 115, 117, 109, 112, 116, 105, 111, 110, 32, 97, 98,
            111, 117, 116, 32, 116, 104, 101, 32, 105, 109, 112, 108, 101, 109, 101, 110, 116, 97, 116, 105,
            111, 110, 32, 111, 102, 32, 115, 116, 97, 99, 107, 44, 32, 105, 116, 32, 109, 97, 121, 32,
            98, 101, 32, 100, 105, 102, 102, 101, 114, 101, 110, 116, 32, 119, 105, 116, 104, 32, 116, 104,
            101, 32, 100, 117, 97, 108, 32, 114, 105, 110, 103, 32, 105, 110, 118, 111, 108, 118, 101, 100,
            32, 97, 108, 115, 111, 32, 102, 111, 114, 32, 116, 114, 97, 102, 102, 105, 99, 32, 98, 101,
            116, 119, 101, 101, 110, 32, 116, 119, 111, 32, 112, 111, 114, 116, 115, 32, 111, 110, 32, 116,
            104, 101, 32, 115, 97, 109, 101, 32, 109, 101, 109, 98, 101, 114, 32, 115, 119, 105, 116, 99,
            104, 46, 32, 40, 116, 111, 116, 97, 108, 32, 108, 97, 99, 107, 32, 111, 102, 32, 115, 111,
            32, 99, 97, 108, 108, 101, 100, 32, 108, 111, 99, 97, 108, 32, 115, 119, 105, 116, 99, 104,
            105, 110, 103, 32, 99, 97, 112, 97, 98, 105, 108, 105, 116, 105, 101, 115, 41, 46, 32, 84,
            104, 101, 32, 115, 116, 97, 99, 107, 32, 105, 109, 112, 108, 101, 109, 101, 110, 116, 115, 32,
            97, 32, 100, 117, 97, 108, 32, 114, 105, 110, 103, 32, 116, 111, 112, 111, 108, 111, 103, 121,
            32, 98, 101, 116, 119, 101, 101, 110, 32, 116, 104, 101, 32, 109, 101, 109, 98, 101, 114, 32,
            115, 119, 105, 116, 99, 104, 101, 115, 32, 116, 104, 97, 116, 32, 97, 99, 116, 32, 97, 115,
            32, 97, 110, 32, 101, 120, 116, 101, 110, 115, 105, 111, 110, 32, 111, 102, 32, 116, 104, 101,
            32, 105, 110, 100, 105, 118, 105, 100, 117, 97, 108, 32, 115, 119, 105, 116, 99, 104, 105, 110,
            103, 32, 102, 97, 98, 114, 105, 99, 115, 46, 32, 84, 104, 101, 32, 115, 112, 101, 101, 100,
            32, 111, 102, 32, 116, 104, 101, 32, 114, 105, 110, 103, 32, 102, 111, 114, 32, 97, 32, 115,
            116, 97, 99, 107, 32, 111, 102, 32, 111, 110, 108, 121, 32, 51, 55, 53, 48, 45, 88, 32,
            40, 115, 116, 97, 99, 107, 119, 105, 115, 101, 32, 112, 108, 117, 115, 41, 32, 115, 104, 111,
            117, 108, 100, 32, 98, 101, 32, 51, 50, 32, 71, 98, 112, 115, 32, 102, 117, 108, 108, 32,
            100, 117, 112, 108, 101, 120, 32, 116, 104, 97, 116, 32, 97, 108, 108, 111, 119, 115, 32, 102,
            111, 114, 32, 97, 32, 118, 101, 114, 121, 32, 103, 111, 111, 100, 32, 105, 110, 116, 101, 114,
            99, 111, 110, 110, 101, 99, 116, 105, 111, 110, 32, 98, 101, 116, 119, 101, 101, 110, 32, 109,
            101, 109, 98, 101, 114, 32, 115, 119, 105, 116, 99, 104, 101, 115, 44, 32, 98, 117, 116, 32,
            73, 32, 97, 103, 114, 101, 101, 32, 105, 116, 32, 105, 115, 32, 110, 111, 116, 32, 101, 110,
            111, 117, 103, 104, 32, 116, 111, 32, 99, 108, 97, 115, 115, 105, 102, 121, 32, 116, 104, 101,
            32, 99, 111, 109, 112, 111, 115, 105, 116, 101, 32, 115, 119, 105, 116, 99, 104, 105, 110, 103,
            32, 102, 97, 98, 114, 105, 99, 32, 97, 115, 32, 110, 111, 116, 32, 98, 108, 111, 99, 107,
            105, 110, 103, 46, 32, 79, 110, 32, 116, 104, 101, 32, 111, 116, 104, 101, 114, 32, 104, 97,
            110, 100, 44, 32, 111, 110, 108, 121, 32, 109, 111, 100, 101, 108, 115, 32, 119, 105, 116, 104,
            32, 49, 48, 71, 69, 32, 112, 111, 114, 116, 115, 32, 99, 97, 110, 32, 98, 101, 32, 105,
            110, 116, 101, 114, 99, 111, 110, 110, 101, 99, 116, 101, 100, 32, 97, 116, 32, 99, 111, 109,
            112, 97, 114, 97, 98, 108, 101, 32, 115, 112, 101, 101, 100, 115, 46, 32, 84, 111, 32, 109,
            97, 107, 101, 32, 97, 32, 99, 111, 109, 112, 97, 114, 105, 115, 111, 110, 32, 97, 32, 67,
            54, 53, 48, 48, 32, 101, 113, 117, 105, 112, 112, 101, 100, 32, 119, 105, 116, 104, 32, 83,
            117, 112, 55, 50, 48, 32, 103, 101, 110, 101, 114, 97, 116, 105, 111, 110, 32, 114, 111, 117,
            116, 101, 32, 112, 114, 111, 99, 101, 115, 115, 111, 114, 32, 112, 114, 111, 118, 105, 100, 101,
            115, 32, 117, 112, 32, 116, 111, 32, 52, 48, 32, 71, 98, 112, 115, 32, 112, 101, 114, 32,
            115, 108, 111, 116, 32, 116, 111, 47, 102, 114, 111, 109, 32, 116, 104, 101, 32, 115, 119, 105,
            116, 99, 104, 105, 110, 103, 32, 102, 97, 98, 114, 105, 99, 32, 97, 110, 100, 32, 115, 111,
            109, 101, 32, 108, 105, 110, 101, 99, 97, 114, 100, 115, 32, 97, 114, 101, 32, 102, 97, 115,
            116, 101, 114, 32, 116, 104, 101, 110, 32, 116, 104, 97, 116, 32, 40, 32, 116, 104, 105, 110,
            107, 32, 111, 102, 160, 32, 87, 83, 45, 54, 55, 48, 56, 32, 111, 114, 32, 87, 83, 45,
            54, 55, 49, 54, 32, 119, 105, 116, 104, 32, 56, 32, 97, 110, 100, 32, 49, 54, 32, 116,
            101, 110, 103, 105, 103, 97, 32, 112, 111, 114, 116, 115, 32, 114, 101, 115, 112, 101, 99, 116,
            105, 118, 101, 108, 121, 41, 46, 32, 65, 98, 111, 117, 116, 32, 116, 104, 101, 32, 102, 111,
            114, 119, 97, 114, 100, 105, 110, 103, 32, 99, 97, 112, 97, 99, 105, 116, 121, 32, 105, 110,
            32, 112, 112, 115, 58, 32, 102, 111, 114, 32, 97, 32, 50, 52, 32, 112, 111, 114, 116, 115,
            32, 100, 101, 118, 105, 99, 101, 32, 105, 115, 32, 108, 105, 115, 116, 101, 100, 32, 97, 115,
            32, 54, 53, 46, 53, 32, 77, 98, 112, 115, 32, 116, 104, 97, 116, 32, 97, 99, 99, 111,
            117, 110, 116, 115, 32, 102, 111, 114, 32, 50, 50, 32, 71, 69, 32, 112, 111, 114, 116, 115,
            32, 49, 71, 98, 112, 115, 32, 102, 117, 108, 108, 32, 100, 117, 112, 108, 101, 120, 32, 119,
            105, 116, 104, 32, 54, 52, 32, 98, 121, 116, 101, 32, 102, 114, 97, 109, 101, 115, 46, 32,
            10, 32, 65, 110, 32, 111, 114, 105, 103, 105, 110, 97, 108, 32, 115, 101, 114, 105, 101, 115,
            32, 51, 55, 53, 48, 32, 40, 111, 114, 32, 51, 53, 54, 48, 41, 32, 102, 97, 98, 114,
            105, 99, 32, 105, 115, 32, 51, 50, 32, 71, 98, 112, 115, 46, 160, 32, 84, 104, 105, 115,
            32, 105, 115, 32, 100, 105, 102, 102, 101, 114, 101, 110, 116, 32, 102, 114, 111, 109, 32, 116,
            104, 101, 32, 115, 116, 97, 99, 107, 32, 114, 105, 110, 103, 39, 115, 32, 34, 51, 50, 32,
            71, 98, 112, 115, 34, 32, 40, 119, 104, 105, 99, 104, 32, 105, 115, 32, 114, 101, 97, 108,
            108, 121, 32, 100, 117, 97, 108, 32, 56, 32, 71, 98, 112, 115, 44, 32, 100, 117, 112, 108,
            101, 120, 41, 46, 32, 65, 110, 32, 111, 114, 105, 103, 105, 110, 97, 108, 32, 115, 101, 114,
            105, 101, 115, 32, 51, 55, 53, 48, 32, 40, 111, 114, 32, 51, 53, 54, 48, 41, 32, 105,
            110, 116, 101, 114, 110, 97, 108, 32, 102, 97, 98, 114, 105, 99, 44, 32, 105, 110, 32, 116,
            104, 101, 111, 114, 121, 44, 32, 105, 115, 32, 111, 118, 101, 114, 115, 117, 98, 115, 99, 114,
            105, 98, 101, 100, 32, 98, 121, 32, 109, 111, 114, 101, 32, 116, 104, 97, 110, 32, 49, 54,
            32, 103, 105, 103, 32, 112, 111, 114, 116, 115, 32, 40, 105, 46, 101, 46, 32, 116, 104, 101,
            32, 34, 71, 34, 32, 115, 117, 102, 102, 105, 120, 101, 100, 32, 111, 114, 105, 103, 105, 110,
            97, 108, 32, 109, 111, 100, 101, 108, 115, 41, 46, 32, 84, 104, 101, 32, 116, 101, 114, 109,
            115, 32, 110, 111, 110, 45, 98, 108, 111, 99, 107, 105, 110, 103, 32, 97, 110, 100, 32, 98,
            108, 111, 99, 107, 105, 110, 103, 44, 32, 119, 104, 101, 110, 32, 101, 120, 97, 109, 105, 110,
            105, 110, 103, 32, 115, 119, 105, 116, 99, 104, 32, 102, 97, 98, 114, 105, 99, 32, 105, 115,
            110, 39, 116, 32, 106, 117, 115, 116, 32, 115, 117, 102, 102, 105, 99, 105, 101, 110, 116, 32,
            98, 97, 110, 100, 119, 105, 100, 116, 104, 32, 99, 97, 112, 97, 99, 105, 116, 121, 32, 116,
            111, 32, 102, 111, 114, 119, 97, 114, 100, 32, 97, 108, 108, 32, 112, 111, 114, 116, 32, 98,
            97, 110, 100, 119, 105, 100, 116, 104, 115, 44, 32, 105, 116, 39, 115, 32, 119, 104, 101, 116,
            104, 101, 114, 32, 116, 104, 101, 32, 102, 97, 98, 114, 105, 99, 39, 115, 32, 97, 114, 99,
            104, 105, 116, 101, 99, 116, 117, 114, 101, 32, 119, 105, 108, 108, 32, 98, 108, 111, 99, 107,
            44, 32, 111, 114, 32, 110, 111, 116, 44, 32, 102, 111, 114, 119, 97, 114, 100, 105, 110, 103,
            32, 111, 102, 32, 102, 114, 97, 109, 101, 115, 32, 101, 118, 101, 110, 32, 105, 102, 32, 116,
            104, 101, 114, 101, 39, 115, 32, 34, 115, 117, 102, 102, 105, 99, 105, 101, 110, 116, 34, 32,
            98, 97, 110, 100, 119, 105, 100, 116, 104, 46, 32, 70, 111, 114, 32, 101, 120, 97, 109, 112,
            108, 101, 44, 32, 121, 111, 117, 32, 104, 97, 118, 101, 32, 116, 104, 114, 101, 101, 32, 105,
            110, 103, 114, 101, 115, 115, 32, 112, 111, 114, 116, 115, 46, 160, 32, 84, 119, 111, 32, 97,
            114, 101, 32, 115, 101, 110, 100, 105, 110, 103, 32, 116, 111, 32, 111, 110, 101, 32, 101, 103,
            114, 101, 115, 115, 32, 112, 111, 114, 116, 32, 40, 50, 58, 49, 41, 32, 97, 110, 100, 32,
            116, 104, 101, 32, 111, 116, 104, 101, 114, 32, 105, 115, 32, 115, 101, 110, 100, 105, 110, 103,
            32, 116, 111, 32, 111, 116, 104, 101, 114, 32, 101, 103, 114, 101, 115, 115, 32, 112, 111, 114,
            116, 32, 40, 49, 58, 49, 41, 46, 160, 32, 73, 102, 32, 50, 58, 49, 32, 99, 111, 110,
            103, 101, 115, 116, 105, 111, 110, 32, 111, 110, 32, 116, 104, 101, 32, 111, 110, 101, 32, 101,
            103, 114, 101, 115, 115, 32, 112, 111, 114, 116, 32, 100, 101, 108, 97, 121, 115, 32, 40, 111,
            114, 32, 98, 108, 111, 99, 107, 115, 41, 32, 116, 114, 97, 110, 115, 109, 105, 115, 115, 105,
            111, 110, 32, 111, 110, 32, 116, 104, 101, 32, 49, 58, 49, 32, 101, 103, 114, 101, 115, 115,
            32, 112, 111, 114, 116, 44, 32, 121, 111, 117, 32, 104, 97, 118, 101, 32, 72, 79, 76, 32,
            40, 104, 101, 97, 100, 45, 111, 102, 45, 108, 105, 110, 101, 41, 32, 98, 108, 111, 99, 107,
            105, 110, 103, 32, 101, 118, 101, 110, 32, 116, 104, 111, 117, 103, 104, 32, 116, 104, 101, 32,
            105, 110, 116, 101, 114, 110, 97, 108, 32, 102, 97, 98, 114, 105, 99, 39, 115, 32, 98, 97,
            110, 100, 119, 105, 100, 116, 104, 32, 99, 111, 117, 108, 100, 32, 115, 117, 112, 112, 111, 114,
            116, 32, 101, 97, 99, 104, 32, 105, 110, 103, 114, 101, 115, 115, 32, 112, 111, 114, 116, 32,
            115, 101, 110, 100, 105, 110, 103, 32, 116, 111, 32, 97, 32, 115, 101, 112, 97, 114, 97, 116,
            101, 32, 101, 103, 114, 101, 115, 115, 32, 112, 111, 114, 116, 32, 40, 97, 108, 108, 32, 49,
            58, 49, 41, 46, 32, 83, 116, 97, 99, 107, 87, 105, 115, 101, 32, 40, 97, 110, 100, 32,
            83, 116, 97, 99, 107, 87, 105, 115, 101, 43, 41, 44, 32, 119, 104, 101, 110, 32, 97, 118,
            97, 105, 108, 97, 98, 108, 101, 44, 32, 117, 115, 101, 32, 98, 111, 116, 104, 32, 114, 105,
            110, 103, 32, 112, 111, 114, 116, 115, 46, 32, 79, 114, 105, 103, 105, 110, 97, 108, 32, 83,
            116, 97, 99, 107, 87, 105, 115, 101, 32, 99, 111, 112, 105, 101, 115, 32, 65, 76, 76, 32,
            109, 101, 109, 98, 101, 114, 32, 115, 119, 105, 116, 99, 104, 32, 116, 114, 97, 102, 102, 105,
            99, 32, 116, 111, 32, 116, 104, 101, 32, 115, 116, 97, 99, 107, 32, 114, 105, 110, 103, 46,
            160, 32, 79, 114, 105, 103, 105, 110, 97, 108, 32, 83, 116, 97, 99, 107, 87, 105, 115, 101,
            32, 115, 111, 117, 114, 99, 101, 32, 115, 116, 97, 99, 107, 32, 109, 101, 109, 98, 101, 114,
            32, 97, 108, 115, 111, 32, 114, 101, 109, 111, 118, 101, 115, 32, 116, 104, 101, 32, 116, 114,
            97, 102, 102, 105, 99, 32, 105, 116, 32, 112, 108, 97, 99, 101, 100, 32, 111, 110, 32, 116,
            104, 101, 32, 115, 116, 97, 99, 107, 32, 114, 105, 110, 103, 46, 32, 83, 116, 97, 99, 107,
            87, 105, 115, 101, 32, 80, 108, 117, 115, 32, 111, 110, 108, 121, 32, 112, 108, 97, 99, 101,
            115, 32, 117, 110, 105, 99, 97, 115, 116, 32, 116, 114, 97, 102, 102, 105, 99, 32, 111, 110,
            32, 116, 104, 101, 32, 115, 116, 97, 99, 107, 32, 114, 105, 110, 103, 32, 119, 104, 101, 110,
            32, 100, 101, 115, 116, 105, 110, 97, 116, 105, 111, 110, 32, 105, 115, 32, 110, 111, 116, 32,
            97, 32, 108, 111, 99, 97, 108, 32, 115, 119, 105, 116, 99, 104, 32, 112, 111, 114, 116, 46,
            160, 32, 65, 100, 100, 105, 116, 105, 111, 110, 97, 108, 108, 121, 44, 32, 100, 101, 115, 116,
            105, 110, 97, 116, 105, 111, 110, 32, 115, 119, 105, 116, 99, 104, 32, 109, 101, 109, 98, 101,
            114, 32, 114, 101, 109, 111, 118, 101, 115, 32, 117, 110, 105, 99, 97, 115, 116, 32, 112, 97,
            99, 107, 101, 116, 115, 46, 160, 32, 40, 73, 46, 101, 46, 32, 83, 116, 97, 99, 107, 87,
            105, 115, 101, 43, 32, 117, 115, 101, 115, 32, 105, 116, 39, 115, 32, 114, 105, 110, 103, 32,
            109, 117, 99, 104, 32, 109, 111, 114, 101, 32, 105, 110, 116, 101, 108, 108, 105, 103, 101, 110,
            116, 108, 121, 46, 160, 32, 73, 116, 32, 97, 108, 115, 111, 32, 104, 97, 115, 32, 100, 117,
            97, 108, 32, 49, 54, 32, 71, 98, 112, 115, 32, 115, 116, 97, 99, 107, 32, 114, 105, 110,
            103, 32, 112, 111, 114, 116, 115, 46, 160, 32, 78, 66, 58, 83, 116, 97, 99, 107, 87, 105,
            115, 101, 43, 44, 32, 102, 111, 114, 32, 116, 104, 101, 32, 109, 111, 115, 116, 32, 112, 97,
            114, 116, 44, 32, 114, 101, 118, 101, 114, 116, 115, 32, 116, 111, 32, 83, 116, 97, 99, 107,
            87, 105, 115, 101, 32, 111, 112, 101, 114, 97, 116, 105, 111, 110, 32, 105, 102, 32, 116, 104,
            101, 114, 101, 39, 115, 32, 97, 32, 83, 116, 97, 99, 107, 87, 105, 115, 101, 32, 111, 110,
            108, 121, 32, 109, 101, 109, 98, 101, 114, 32, 115, 119, 105, 116, 99, 104, 32, 105, 110, 32,
            116, 104, 101, 32, 115, 116, 97, 99, 107, 32, 91, 103, 111, 111, 100, 32, 114, 101, 97, 115,
            111, 110, 32, 110, 111, 116, 32, 116, 111, 32, 117, 115, 101, 32, 115, 117, 99, 104, 32, 109,
            105, 120, 101, 100, 32, 115, 116, 97, 99, 107, 115, 93, 46, 41, 32, 66, 105, 116, 115, 32,
            112, 101, 114, 32, 115, 101, 99, 111, 110, 100, 44, 32, 105, 115, 32, 116, 104, 101, 32, 116,
            114, 97, 110, 115, 109, 105, 115, 115, 105, 111, 110, 32, 114, 97, 116, 101, 32, 115, 117, 112,
            112, 111, 114, 116, 101, 100, 32, 98, 121, 32, 116, 104, 101, 32, 109, 101, 100, 105, 97, 46,
            160, 32, 83, 111, 44, 32, 102, 111, 114, 32, 101, 120, 97, 109, 112, 108, 101, 44, 32, 49,
            48, 48, 32, 77, 98, 112, 115, 32, 97, 108, 108, 111, 119, 115, 32, 116, 114, 97, 110, 115,
            109, 105, 115, 115, 105, 111, 110, 32, 111, 102, 32, 49, 48, 48, 44, 48, 48, 48, 44, 48,
            48, 48, 32, 98, 105, 116, 115, 32, 112, 101, 114, 32, 115, 101, 99, 111, 110, 100, 115, 46,
            160, 32, 72, 111, 119, 101, 118, 101, 114, 44, 32, 116, 114, 97, 110, 115, 102, 101, 114, 114,
            105, 110, 103, 32, 97, 99, 116, 117, 97, 108, 32, 100, 97, 116, 97, 44, 32, 105, 110, 32,
            115, 111, 109, 101, 116, 104, 105, 110, 103, 32, 108, 105, 107, 101, 32, 112, 104, 121, 115, 105,
            99, 97, 108, 32, 115, 101, 103, 109, 101, 110, 116, 115, 32, 40, 101, 46, 103, 46, 32, 102,
            114, 97, 109, 101, 115, 41, 32, 117, 115, 101, 115, 32, 115, 111, 109, 101, 32, 111, 102, 32,
            116, 104, 105, 115, 32, 99, 97, 112, 97, 99, 105, 116, 121, 32, 102, 111, 114, 32, 98, 111,
            116, 104, 32, 102, 114, 97, 109, 105, 110, 103, 32, 111, 118, 101, 114, 104, 101, 97, 100, 32,
            97, 110, 100, 32, 102, 114, 97, 109, 105, 110, 103, 32, 100, 101, 108, 105, 110, 101, 97, 116,
            105, 111, 110, 44, 32, 115, 111, 32, 117, 115, 101, 102, 117, 108, 32, 99, 97, 112, 97, 99,
            105, 116, 121, 32, 105, 115, 32, 108, 101, 115, 115, 32, 116, 104, 97, 110, 32, 116, 104, 101,
            32, 111, 102, 116, 101, 110, 32, 113, 117, 111, 116, 101, 100, 32, 98, 112, 115, 32, 114, 97,
            116, 101, 46, 160, 32, 85, 115, 101, 102, 117, 108, 32, 99, 97, 112, 97, 99, 105, 116, 121,
            32, 112, 101, 114, 99, 101, 110, 116, 97, 103, 101, 32, 40, 111, 102, 32, 111, 118, 101, 114,
            97, 108, 108, 32, 114, 97, 116, 101, 41, 32, 97, 108, 115, 111, 32, 103, 101, 110, 101, 114,
            97, 108, 108, 121, 32, 100, 101, 99, 114, 101, 97, 115, 101, 115, 32, 97, 115, 32, 102, 114,
            97, 109, 101, 32, 115, 105, 122, 101, 32, 100, 101, 99, 114, 101, 97, 115, 101, 115, 46, 160,
            32, 40, 66, 84, 87, 44, 32, 115, 105, 109, 105, 108, 97, 114, 32, 105, 115, 115, 117, 101,
            32, 119, 105, 116, 104, 32, 100, 105, 115, 107, 32, 109, 101, 100, 105, 97, 46, 160, 32, 65,
            116, 32, 108, 101, 97, 115, 116, 32, 100, 105, 115, 107, 32, 99, 97, 112, 97, 99, 105, 116,
            121, 32, 105, 115, 110, 39, 116, 44, 32, 103, 101, 110, 101, 114, 97, 108, 108, 121, 44, 32,
            113, 117, 111, 116, 101, 100, 32, 102, 111, 114, 32, 105, 116, 115, 32, 117, 110, 102, 111, 114,
            109, 97, 116, 116, 101, 100, 32, 99, 97, 112, 97, 99, 105, 116, 121, 32, 97, 110, 121, 32,
            108, 111, 110, 103, 101, 114, 46, 41, 32, 84, 104, 101, 32, 50, 53, 32, 77, 98, 112, 115,
            32, 116, 104, 114, 111, 117, 103, 104, 112, 117, 116, 32, 105, 115, 32, 114, 97, 116, 101, 100,
            32, 102, 111, 114, 32, 109, 105, 110, 105, 109, 117, 109, 32, 115, 105, 122, 101, 100, 32, 112,
            97, 99, 107, 101, 116, 115, 46, 160, 32, 76, 97, 114, 103, 101, 114, 32, 112, 97, 99, 107,
            101, 116, 115, 32, 111, 102, 116, 101, 110, 32, 97, 108, 108, 111, 119, 32, 109, 117, 99, 104,
            32, 104, 105, 103, 104, 101, 114, 32, 116, 104, 114, 111, 117, 103, 104, 112, 117, 116, 32, 97,
            115, 32, 116, 104, 101, 32, 112, 97, 99, 107, 101, 116, 115, 32, 112, 101, 114, 32, 115, 101,
            99, 111, 110, 100, 32, 114, 101, 113, 117, 105, 114, 101, 109, 101, 110, 116, 32, 40, 102, 111,
            114, 32, 115, 97, 109, 101, 32, 98, 97, 110, 100, 119, 105, 100, 116, 104, 41, 32, 100, 101,
            99, 114, 101, 97, 115, 101, 115, 46, 160, 32, 40, 83, 111, 109, 101, 116, 105, 109, 101, 115,
            32, 116, 104, 101, 32, 118, 101, 110, 100, 111, 114, 32, 119, 105, 108, 108, 32, 100, 111, 99,
            117, 109, 101, 110, 116, 32, 80, 80, 83, 32, 114, 97, 116, 101, 115, 32, 102, 111, 114, 32,
            109, 117, 108, 116, 105, 112, 108, 101, 32, 112, 97, 99, 107, 101, 116, 32, 115, 105, 122, 101,
            115, 46, 160, 32, 87, 105, 116, 104, 111, 117, 116, 32, 115, 117, 99, 104, 32, 100, 111, 99,
            117, 109, 101, 110, 116, 97, 116, 105, 111, 110, 44, 32, 111, 114, 32, 121, 111, 117, 114, 32,
            111, 119, 110, 32, 116, 101, 115, 116, 105, 110, 103, 44, 32, 106, 117, 115, 116, 32, 107, 110,
            111, 119, 105, 110, 103, 32, 100, 111, 99, 117, 109, 101, 110, 116, 101, 100, 32, 112, 101, 114,
            102, 111, 114, 109, 97, 110, 99, 101, 32, 102, 111, 114, 32, 111, 110, 101, 32, 112, 97, 99,
            107, 101, 116, 32, 115, 105, 122, 101, 32, 121, 111, 117, 32, 99, 97, 110, 110, 111, 116, 32,
            97, 99, 99, 117, 114, 97, 116, 101, 108, 121, 32, 112, 114, 101, 100, 105, 99, 116, 32, 97,
            32, 100, 101, 118, 105, 99, 101, 39, 115, 32, 112, 101, 114, 102, 111, 114, 109, 97, 110, 99,
            101, 32, 102, 111, 114, 32, 111, 116, 104, 101, 114, 32, 112, 97, 99, 107, 101, 116, 32, 115,
            105, 122, 101, 115, 46, 41, 32, 10, 32, 20358, 28304, 32, 10, 32, 83, 119, 105, 116, 99, 104,
            32, 98, 97, 99, 107, 112, 108, 97, 110, 101, 32, 98, 97, 110, 100, 119, 105, 100, 116, 104,
            44, 32, 115, 119, 105, 116, 99, 104, 105, 110, 103, 32, 99, 97, 112, 97, 99, 105, 116, 121,
            44, 32, 112, 97, 99, 107, 101, 116, 32, 102, 111, 114, 119, 97, 114, 100, 105, 110, 103, 32,
            114, 97, 116, 101, 32, 100, 105, 102, 102, 101, 114, 101, 110, 99, 101, 32, 66, 97, 99, 107,
            112, 108, 97, 110, 101, 32, 98, 97, 110, 100, 119, 105, 100, 116, 104, 32, 114, 101, 102, 101,
            114, 115, 32, 116, 111, 32, 116, 104, 101, 32, 101, 110, 116, 105, 114, 101, 32, 115, 119, 105,
            116, 99, 104, 105, 110, 103, 32, 99, 97, 112, 97, 99, 105, 116, 121, 32, 111, 102, 32, 116,
            104, 101, 32, 98, 97, 99, 107, 112, 108, 97, 110, 101, 44, 32, 115, 119, 105, 116, 99, 104,
            105, 110, 103, 32, 99, 97, 112, 97, 99, 105, 116, 121, 32, 114, 101, 102, 101, 114, 115, 32,
            116, 111, 32, 116, 104, 101, 32, 115, 119, 105, 116, 99, 104, 105, 110, 103, 32, 99, 97, 112,
            97, 99, 105, 116, 121, 32, 111, 102, 32, 116, 104, 101, 32, 67, 80, 85, 44, 32, 97, 110,
            100, 32, 112, 97, 99, 107, 101, 116, 32, 102, 111, 114, 119, 97, 114, 100, 105, 110, 103, 32,
            114, 101, 102, 101, 114, 115, 32, 116, 111, 32, 116, 104, 101, 32, 99, 97, 112, 97, 99, 105,
            116, 121, 32, 111, 102, 32, 116, 104, 101, 32, 116, 104, 114, 101, 101, 45, 108, 97, 121, 101,
            114, 32, 102, 111, 114, 119, 97, 114, 100, 105, 110, 103, 46, 32, 70, 105, 114, 115, 116, 44,
            32, 116, 104, 101, 32, 98, 97, 99, 107, 112, 108, 97, 110, 101, 32, 98, 97, 110, 100, 119,
            105, 100, 116, 104, 32, 49, 46, 32, 83, 119, 105, 116, 99, 104, 32, 98, 97, 99, 107, 112,
            108, 97, 110, 101, 32, 98, 97, 110, 100, 119, 105, 100, 116, 104, 32, 109, 101, 97, 110, 105,
            110, 103, 32, 10, 32, 84, 104, 101, 32, 98, 97, 99, 107, 112, 108, 97, 110, 101, 32, 98,
            97, 110, 100, 119, 105, 100, 116, 104, 32, 111, 102, 32, 116, 104, 101, 32, 115, 119, 105, 116,
            99, 104, 44, 32, 97, 108, 115, 111, 32, 99, 97, 108, 108, 101, 100, 32, 116, 104, 101, 32,
            98, 97, 99, 107, 112, 108, 97, 110, 101, 32, 99, 97, 112, 97, 99, 105, 116, 121, 44, 32,
            105, 115, 32, 116, 104, 101, 32, 109, 97, 120, 105, 109, 117, 109, 32, 97, 109, 111, 117, 110,
            116, 32, 111, 102, 32, 100, 97, 116, 97, 32, 116, 104, 97, 116, 32, 99, 97, 110, 32, 98,
            101, 32, 104, 97, 110, 100, 108, 101, 100, 32, 98, 101, 116, 119, 101, 101, 110, 32, 116, 104,
            101, 32, 115, 119, 105, 116, 99, 104, 32, 105, 110, 116, 101, 114, 102, 97, 99, 101, 32, 112,
            114, 111, 99, 101, 115, 115, 111, 114, 32, 111, 114, 32, 116, 104, 101, 32, 105, 110, 116, 101,
            114, 102, 97, 99, 101, 32, 99, 97, 114, 100, 32, 97, 110, 100, 32, 116, 104, 101, 32, 100,
            97, 116, 97, 32, 98, 117, 115, 46, 32, 84, 104, 101, 32, 98, 97, 99, 107, 112, 108, 97,
            110, 101, 32, 98, 97, 110, 100, 119, 105, 100, 116, 104, 32, 109, 97, 114, 107, 115, 32, 116,
            104, 101, 32, 116, 111, 116, 97, 108, 32, 100, 97, 116, 97, 32, 101, 120, 99, 104, 97, 110,
            103, 101, 32, 99, 97, 112, 97, 99, 105, 116, 121, 32, 111, 102, 32, 116, 104, 101, 32, 115,
            119, 105, 116, 99, 104, 44, 32, 105, 110, 32, 71, 98, 112, 115, 46, 32, 84, 104, 101, 32,
            98, 97, 99, 107, 112, 108, 97, 110, 101, 32, 98, 97, 110, 100, 119, 105, 100, 116, 104, 32,
            111, 102, 32, 97, 32, 116, 121, 112, 105, 99, 97, 108, 32, 115, 119, 105, 116, 99, 104, 32,
            114, 97, 110, 103, 101, 115, 32, 102, 114, 111, 109, 32, 97, 32, 102, 101, 119, 32, 71, 98,
            112, 115, 32, 116, 111, 32, 104, 117, 110, 100, 114, 101, 100, 115, 32, 111, 102, 32, 71, 98,
            112, 115, 46, 32, 84, 104, 101, 32, 104, 105, 103, 104, 101, 114, 32, 116, 104, 101, 32, 98,
            97, 99, 107, 112, 108, 97, 110, 101, 32, 98, 97, 110, 100, 119, 105, 100, 116, 104, 32, 111,
            102, 32, 97, 32, 115, 119, 105, 116, 99, 104, 44, 32, 116, 104, 101, 32, 98, 101, 116, 116,
            101, 114, 32, 116, 104, 101, 32, 97, 98, 105, 108, 105, 116, 121, 32, 116, 111, 32, 112, 114,
            111, 99, 101, 115, 115, 32, 100, 97, 116, 97, 44, 32, 98, 117, 116, 32, 97, 116, 32, 116,
            104, 101, 32, 115, 97, 109, 101, 32, 116, 105, 109, 101, 32, 116, 104, 101, 32, 100, 101, 115,
            105, 103, 110, 32, 99, 111, 115, 116, 32, 119, 105, 108, 108, 32, 98, 101, 32, 104, 105, 103,
            104, 101, 114, 46, 32, 50, 46, 32, 84, 104, 101, 32, 105, 110, 116, 101, 114, 110, 97, 108,
            32, 115, 116, 114, 117, 99, 116, 117, 114, 101, 32, 111, 102, 32, 116, 104, 101, 32, 115, 119,
            105, 116, 99, 104, 32, 10, 32, 84, 104, 101, 32, 117, 116, 105, 108, 105, 122, 97, 116, 105,
            111, 110, 32, 111, 102, 32, 98, 97, 99, 107, 112, 108, 97, 110, 101, 32, 98, 97, 110, 100,
            119, 105, 100, 116, 104, 32, 114, 101, 115, 111, 117, 114, 99, 101, 115, 32, 105, 115, 32, 99,
            108, 111, 115, 101, 108, 121, 32, 114, 101, 108, 97, 116, 101, 100, 32, 116, 111, 32, 116, 104,
            101, 32, 105, 110, 116, 101, 114, 110, 97, 108, 32, 115, 116, 114, 117, 99, 116, 117, 114, 101,
            32, 111, 102, 32, 116, 104, 101, 32, 115, 119, 105, 116, 99, 104, 46, 32, 65, 116, 32, 112,
            114, 101, 115, 101, 110, 116, 44, 32, 116, 104, 101, 32, 105, 110, 116, 101, 114, 110, 97, 108,
            32, 115, 116, 114, 117, 99, 116, 117, 114, 101, 32, 111, 102, 32, 116, 104, 101, 32, 115, 119,
            105, 116, 99, 104, 32, 109, 97, 105, 110, 108, 121, 32, 104, 97, 115, 32, 116, 104, 101, 32,
            102, 111, 108, 108, 111, 119, 105, 110, 103, 32, 116, 121, 112, 101, 115, 58, 32, 10, 32, 70,
            105, 114, 115, 116, 44, 32, 97, 32, 115, 104, 97, 114, 101, 100, 32, 109, 101, 109, 111, 114,
            121, 32, 115, 116, 114, 117, 99, 116, 117, 114, 101, 44, 32, 119, 104, 105, 99, 104, 32, 114,
            101, 108, 105, 101, 115, 32, 111, 110, 32, 97, 32, 99, 101, 110, 116, 114, 97, 108, 32, 115,
            119, 105, 116, 99, 104, 105, 110, 103, 32, 101, 110, 103, 105, 110, 101, 32, 116, 111, 32, 112,
            114, 111, 118, 105, 100, 101, 32, 97, 32, 104, 105, 103, 104, 45, 112, 101, 114, 102, 111, 114,
            109, 97, 110, 99, 101, 32, 99, 111, 110, 110, 101, 99, 116, 105, 111, 110, 32, 102, 111, 114,
            32, 97, 32, 102, 117, 108, 108, 32, 112, 111, 114, 116, 44, 32, 97, 110, 100, 32, 116, 104,
            101, 32, 99, 111, 114, 101, 32, 101, 110, 103, 105, 110, 101, 32, 99, 104, 101, 99, 107, 115,
            32, 101, 97, 99, 104, 32, 105, 110, 112, 117, 116, 32, 112, 97, 99, 107, 101, 116, 32, 116,
            111, 32, 100, 101, 116, 101, 114, 109, 105, 110, 101, 32, 97, 32, 114, 111, 117, 116, 101, 46,
            32, 84, 104, 105, 115, 32, 109, 101, 116, 104, 111, 100, 32, 114, 101, 113, 117, 105, 114, 101,
            115, 32, 97, 32, 108, 97, 114, 103, 101, 32, 109, 101, 109, 111, 114, 121, 32, 98, 97, 110,
            100, 119, 105, 100, 116, 104, 32, 97, 110, 100, 32, 104, 105, 103, 104, 32, 109, 97, 110, 97,
            103, 101, 109, 101, 110, 116, 32, 99, 111, 115, 116, 46, 32, 69, 115, 112, 101, 99, 105, 97,
            108, 108, 121, 32, 119, 105, 116, 104, 32, 116, 104, 101, 32, 105, 110, 99, 114, 101, 97, 115,
            101, 32, 111, 102, 32, 116, 104, 101, 32, 115, 119, 105, 116, 99, 104, 32, 112, 111, 114, 116,
            44, 32, 116, 104, 101, 32, 112, 114, 105, 99, 101, 32, 111, 102, 32, 116, 104, 101, 32, 99,
            101, 110, 116, 114, 97, 108, 32, 109, 101, 109, 111, 114, 121, 32, 119, 105, 108, 108, 32, 98,
            101, 32, 118, 101, 114, 121, 32, 104, 105, 103, 104, 44, 32, 115, 111, 32, 116, 104, 101, 32,
            115, 119, 105, 116, 99, 104, 32, 99, 111, 114, 101, 32, 98, 101, 99, 111, 109, 101, 115, 32,
            116, 104, 101, 32, 98, 111, 116, 116, 108, 101, 110, 101, 99, 107, 32, 111, 102, 32, 112, 101,
            114, 102, 111, 114, 109, 97, 110, 99, 101, 32, 114, 101, 97, 108, 105, 122, 97, 116, 105, 111,
            110, 59, 32, 10, 32, 116, 104, 101, 32, 115, 101, 99, 111, 110, 100, 32, 105, 115, 32, 116,
            104, 101, 32, 99, 114, 111, 115, 115, 32, 98, 117, 115, 32, 115, 116, 114, 117, 99, 116, 117,
            114, 101, 44, 32, 119, 104, 105, 99, 104, 32, 99, 97, 110, 32, 69, 115, 116, 97, 98, 108,
            105, 115, 104, 32, 97, 32, 100, 105, 114, 101, 99, 116, 32, 112, 111, 105, 110, 116, 45, 116,
            111, 45, 112, 111, 105, 110, 116, 32, 99, 111, 110, 110, 101, 99, 116, 105, 111, 110, 32, 98,
            101, 116, 119, 101, 101, 110, 32, 112, 111, 114, 116, 115, 44, 32, 119, 104, 105, 99, 104, 32,
            105, 115, 32, 103, 111, 111, 100, 32, 102, 111, 114, 32, 115, 105, 110, 103, 108, 101, 45, 112,
            111, 105, 110, 116, 32, 116, 114, 97, 110, 115, 109, 105, 115, 115, 105, 111, 110, 44, 32, 98,
            117, 116, 32, 110, 111, 116, 32, 115, 117, 105, 116, 97, 98, 108, 101, 32, 102, 111, 114, 32,
            109, 117, 108, 116, 105, 45, 112, 111, 105, 110, 116, 32, 116, 114, 97, 110, 115, 109, 105, 115,
            115, 105, 111, 110, 59, 32, 10, 32, 116, 104, 101, 32, 116, 104, 105, 114, 100, 32, 105, 115,
            32, 97, 32, 104, 121, 98, 114, 105, 100, 32, 99, 114, 111, 115, 115, 45, 98, 117, 115, 32,
            115, 116, 114, 117, 99, 116, 117, 114, 101, 44, 32, 119, 104, 105, 99, 104, 32, 105, 115, 32,
            97, 32, 104, 121, 98, 114, 105, 100, 32, 99, 114, 111, 115, 115, 45, 98, 117, 115, 32, 105,
            109, 112, 108, 101, 109, 101, 110, 116, 97, 116, 105, 111, 110, 46, 32, 73, 116, 115, 32, 100,
            101, 115, 105, 103, 110, 32, 105, 100, 101, 97, 32, 105, 115, 32, 116, 111, 32, 105, 110, 116,
            101, 103, 114, 97, 116, 101, 32, 84, 104, 101, 32, 99, 114, 111, 115, 115, 32, 98, 117, 115,
            32, 109, 97, 116, 114, 105, 120, 32, 105, 115, 32, 100, 105, 118, 105, 100, 101, 100, 32, 105,
            110, 116, 111, 32, 115, 109, 97, 108, 108, 32, 99, 114, 111, 115, 115, 32, 109, 97, 116, 114,
            105, 99, 101, 115, 32, 99, 111, 110, 110, 101, 99, 116, 101, 100, 32, 98, 121, 32, 97, 32,
            104, 105, 103, 104, 32, 112, 101, 114, 102, 111, 114, 109, 97, 110, 99, 101, 32, 98, 117, 115,
            46, 32, 84, 104, 101, 32, 97, 100, 118, 97, 110, 116, 97, 103, 101, 32, 105, 115, 32, 116,
            104, 97, 116, 32, 116, 104, 101, 32, 110, 117, 109, 98, 101, 114, 32, 111, 102, 32, 99, 114,
            111, 115, 115, 45, 98, 117, 115, 101, 115, 32, 105, 115, 32, 114, 101, 100, 117, 99, 101, 100,
            44, 32, 116, 104, 101, 32, 99, 111, 115, 116, 32, 105, 115, 32, 114, 101, 100, 117, 99, 101,
            100, 44, 32, 97, 110, 100, 32, 98, 117, 115, 32, 99, 111, 110, 116, 101, 110, 116, 105, 111,
            110, 32, 105, 115, 32, 114, 101, 100, 117, 99, 101, 100, 59, 32, 104, 111, 119, 101, 118, 101,
            114, 44, 32, 116, 104, 101, 32, 98, 117, 115, 32, 99, 111, 110, 110, 101, 99, 116, 105, 110,
            103, 32, 116, 104, 101, 32, 99, 114, 111, 115, 115, 45, 109, 97, 116, 114, 105, 120, 32, 98,
            101, 99, 111, 109, 101, 115, 32, 97, 32, 110, 101, 119, 32, 112, 101, 114, 102, 111, 114, 109,
            97, 110, 99, 101, 32, 98, 111, 116, 116, 108, 101, 110, 101, 99, 107, 46, 32, 51, 46, 32,
            76, 105, 110, 101, 97, 114, 32, 110, 111, 110, 45, 98, 108, 111, 99, 107, 105, 110, 103, 32,
            116, 114, 97, 110, 115, 109, 105, 115, 115, 105, 111, 110, 32, 10, 32, 84, 104, 101, 32, 98,
            101, 115, 116, 32, 112, 101, 114, 102, 111, 114, 109, 97, 110, 99, 101, 32, 119, 101, 32, 99,
            97, 110, 32, 98, 117, 121, 32, 102, 111, 114, 32, 116, 104, 101, 32, 116, 114, 97, 110, 115,
            102, 101, 114, 32, 109, 97, 99, 104, 105, 110, 101, 32, 105, 115, 32, 116, 111, 32, 114, 101,
            113, 117, 105, 114, 101, 32, 108, 105, 110, 101, 97, 114, 32, 110, 111, 110, 45, 98, 108, 111,
            99, 107, 105, 110, 103, 32, 116, 114, 97, 110, 115, 109, 105, 115, 115, 105, 111, 110, 46, 32,
            72, 111, 119, 32, 100, 111, 32, 119, 101, 32, 105, 110, 118, 101, 115, 116, 105, 103, 97, 116,
            101, 32, 119, 104, 101, 116, 104, 101, 114, 32, 116, 104, 101, 32, 98, 97, 99, 107, 112, 108,
            97, 110, 101, 32, 98, 97, 110, 100, 119, 105, 100, 116, 104, 32, 111, 102, 32, 97, 32, 115,
            119, 105, 116, 99, 104, 32, 105, 115, 32, 115, 117, 102, 102, 105, 99, 105, 101, 110, 116, 63,
            32, 72, 111, 119, 32, 116, 111, 32, 100, 101, 116, 101, 114, 109, 105, 110, 101, 32, 119, 104,
            101, 116, 104, 101, 114, 32, 116, 104, 101, 32, 100, 101, 115, 105, 103, 110, 32, 111, 102, 32,
            116, 104, 101, 32, 115, 119, 105, 116, 99, 104, 32, 121, 111, 117, 32, 98, 111, 117, 103, 104,
            116, 32, 105, 115, 32, 114, 101, 97, 115, 111, 110, 97, 98, 108, 101, 44, 32, 97, 110, 100,
            32, 116, 104, 101, 114, 101, 32, 105, 115, 32, 97, 32, 98, 108, 111, 99, 107, 105, 110, 103,
            32, 115, 116, 114, 117, 99, 116, 117, 114, 101, 32, 100, 101, 115, 105, 103, 110, 63, 32, 10,
            32, 67, 97, 108, 99, 117, 108, 97, 116, 105, 111, 110, 32, 102, 111, 114, 109, 117, 108, 97,
            58, 32, 10, 32, 65, 46, 32, 84, 104, 101, 32, 115, 117, 109, 32, 111, 102, 32, 116, 104,
            101, 32, 110, 117, 109, 98, 101, 114, 32, 111, 102, 32, 97, 108, 108, 32, 112, 111, 114, 116,
            32, 99, 97, 112, 97, 99, 105, 116, 121, 32, 88, 32, 112, 111, 114, 116, 115, 32, 115, 104,
            111, 117, 108, 100, 32, 98, 101, 32, 108, 101, 115, 115, 32, 116, 104, 97, 110, 32, 116, 104,
            101, 32, 98, 97, 99, 107, 112, 108, 97, 110, 101, 32, 98, 97, 110, 100, 119, 105, 100, 116,
            104, 44, 32, 119, 104, 105, 99, 104, 32, 99, 97, 110, 32, 114, 101, 97, 108, 105, 122, 101,
            32, 102, 117, 108, 108, 45, 100, 117, 112, 108, 101, 120, 32, 110, 111, 110, 45, 98, 108, 111,
            99, 107, 105, 110, 103, 32, 115, 119, 105, 116, 99, 104, 105, 110, 103, 44, 32, 119, 104, 105,
            99, 104, 32, 112, 114, 111, 118, 101, 115, 32, 116, 104, 97, 116, 32, 116, 104, 101, 32, 115,
            119, 105, 116, 99, 104, 32, 104, 97, 115, 32, 116, 104, 101, 32, 99, 111, 110, 100, 105, 116,
            105, 111, 110, 115, 32, 111, 102, 32, 109, 97, 120, 105, 109, 105, 122, 105, 110, 103, 32, 100,
            97, 116, 97, 32, 101, 120, 99, 104, 97, 110, 103, 101, 32, 112, 101, 114, 102, 111, 114, 109,
            97, 110, 99, 101, 46, 32, 10, 32, 66, 46, 32, 70, 117, 108, 108, 32, 99, 111, 110, 102,
            105, 103, 117, 114, 97, 116, 105, 111, 110, 32, 116, 104, 114, 111, 117, 103, 104, 112, 117, 116,
            32, 40, 77, 98, 112, 115, 41, 32, 61, 32, 102, 117, 108, 108, 32, 99, 111, 110, 102, 105,
            103, 117, 114, 97, 116, 105, 111, 110, 32, 71, 69, 32, 112, 111, 114, 116, 32, 110, 117, 109,
            98, 101, 114, 32, 215, 32, 49, 46, 52, 56, 56, 32, 77, 112, 112, 115, 44, 32, 119, 104,
            101, 114, 101, 105, 110, 32, 116, 104, 101, 32, 116, 104, 101, 111, 114, 101, 116, 105, 99, 97,
            108, 32, 116, 104, 114, 111, 117, 103, 104, 112, 117, 116, 32, 111, 102, 32, 97, 32, 71, 105,
            103, 97, 98, 105, 116, 32, 112, 111, 114, 116, 32, 119, 105, 116, 104, 32, 97, 32, 112, 97,
            99, 107, 101, 116, 32, 108, 101, 110, 103, 116, 104, 32, 111, 102, 32, 54, 52, 32, 98, 121,
            116, 101, 115, 32, 105, 115, 32, 49, 46, 52, 56, 56, 32, 77, 112, 112, 115, 46, 32, 70,
            111, 114, 32, 101, 120, 97, 109, 112, 108, 101, 44, 32, 97, 32, 115, 119, 105, 116, 99, 104,
            32, 119, 105, 116, 104, 32, 117, 112, 32, 116, 111, 32, 54, 52, 32, 71, 105, 103, 97, 98,
            105, 116, 32, 112, 111, 114, 116, 115, 32, 115, 104, 111, 117, 108, 100, 32, 104, 97, 118, 101,
            32, 97, 32, 102, 117, 108, 108, 32, 99, 111, 110, 102, 105, 103, 117, 114, 97, 116, 105, 111,
            110, 32, 116, 104, 114, 111, 117, 103, 104, 112, 117, 116, 32, 111, 102, 32, 54, 52, 32, 120,
            32, 49, 46, 52, 56, 56, 32, 77, 112, 112, 115, 32, 61, 32, 57, 53, 46, 50, 32, 77,
            112, 112, 115, 32, 116, 111, 32, 101, 110, 115, 117, 114, 101, 32, 110, 111, 110, 45, 98, 108,
            111, 99, 107, 105, 110, 103, 32, 112, 97, 99, 107, 101, 116, 32, 115, 119, 105, 116, 99, 104,
            105, 110, 103, 32, 119, 104, 101, 110, 32, 97, 108, 108, 32, 112, 111, 114, 116, 32, 108, 105,
            110, 101, 32, 115, 112, 101, 101, 100, 115, 32, 97, 114, 101, 32, 119, 111, 114, 107, 105, 110,
            103, 46, 32, 69, 120, 97, 109, 112, 108, 101, 58, 32, 73, 102, 32, 97, 32, 115, 119, 105,
            116, 99, 104, 32, 99, 97, 110, 32, 112, 114, 111, 118, 105, 100, 101, 32, 117, 112, 32, 116,
            111, 32, 49, 55, 54, 32, 71, 105, 103, 97, 98, 105, 116, 32, 112, 111, 114, 116, 115, 32,
            97, 110, 100, 32, 116, 104, 101, 32, 100, 101, 99, 108, 97, 114, 101, 100, 32, 116, 104, 114,
            111, 117, 103, 104, 112, 117, 116, 32, 105, 115, 32, 108, 101, 115, 115, 32, 116, 104, 97, 110,
            32, 50, 54, 49, 46, 56, 32, 77, 112, 112, 115, 32, 40, 49, 55, 54, 32, 120, 32, 49,
            46, 52, 56, 56, 32, 77, 112, 112, 115, 32, 61, 32, 50, 54, 49, 46, 56, 41, 44, 32,
            116, 104, 101, 110, 32, 116, 104, 101, 32, 117, 115, 101, 114, 32, 104, 97, 115, 32, 114, 101,
            97, 115, 111, 110, 32, 116, 111, 32, 98, 101, 108, 105, 101, 118, 101, 32, 116, 104, 97, 116,
            32, 116, 104, 101, 32, 115, 119, 105, 116, 99, 104, 32, 105, 115, 32, 100, 101, 115, 105, 103,
            110, 101, 100, 32, 119, 105, 116, 104, 32, 97, 32, 98, 108, 111, 99, 107, 105, 110, 103, 32,
            115, 116, 114, 117, 99, 116, 117, 114, 101, 46, 32, 10, 32, 70, 111, 114, 32, 49, 48, 32,
            71, 105, 103, 97, 98, 105, 116, 32, 69, 116, 104, 101, 114, 110, 101, 116, 44, 32, 116, 104,
            101, 32, 112, 97, 99, 107, 101, 116, 32, 102, 111, 114, 119, 97, 114, 100, 105, 110, 103, 32,
            114, 97, 116, 101, 32, 111, 102, 32, 97, 32, 119, 105, 114, 101, 45, 115, 112, 101, 101, 100,
            32, 112, 111, 114, 116, 32, 105, 115, 32, 49, 52, 46, 56, 56, 32, 77, 112, 112, 115, 46,
            32, 10, 32, 70, 111, 114, 32, 71, 105, 103, 97, 98, 105, 116, 32, 69, 116, 104, 101, 114,
            110, 101, 116, 44, 32, 116, 104, 101, 32, 112, 97, 99, 107, 101, 116, 32, 102, 111, 114, 119,
            97, 114, 100, 105, 110, 103, 32, 114, 97, 116, 101, 32, 111, 102, 32, 97, 32, 119, 105, 114,
            101, 45, 115, 112, 101, 101, 100, 32, 112, 111, 114, 116, 32, 105, 115, 32, 49, 46, 52, 56,
            56, 32, 77, 112, 112, 115, 46, 32, 10, 32, 70, 111, 114, 32, 70, 97, 115, 116, 32, 69,
            116, 104, 101, 114, 110, 101, 116, 44, 32, 116, 104, 101, 32, 112, 97, 99, 107, 101, 116, 32,
            102, 111, 114, 119, 97, 114, 100, 105, 110, 103, 32, 114, 97, 116, 101, 32, 111, 102, 32, 97,
            32, 119, 105, 114, 101, 45, 115, 112, 101, 101, 100, 32, 112, 111, 114, 116, 32, 105, 115, 32,
            48, 46, 49, 52, 56, 56, 32, 77, 112, 112, 115, 46, 32, 10, 32, 70, 111, 114, 32, 79,
            67, 45, 49, 50, 32, 80, 79, 83, 32, 112, 111, 114, 116, 115, 44, 32, 116, 104, 101, 32,
            112, 97, 99, 107, 101, 116, 32, 102, 111, 114, 119, 97, 114, 100, 105, 110, 103, 32, 114, 97,
            116, 101, 32, 111, 102, 32, 97, 32, 108, 105, 110, 101, 32, 114, 97, 116, 101, 32, 112, 111,
            114, 116, 32, 105, 115, 32, 49, 46, 49, 55, 32, 77, 112, 112, 115, 46, 32, 10, 32, 70,
            111, 114, 32, 116, 104, 101, 32, 80, 79, 83, 32, 112, 111, 114, 116, 32, 111, 102, 32, 79,
            67, 45, 52, 56, 44, 32, 116, 104, 101, 32, 112, 97, 99, 107, 101, 116, 32, 102, 111, 114,
            119, 97, 114, 100, 105, 110, 103, 32, 114, 97, 116, 101, 32, 111, 102, 32, 111, 110, 101, 32,
            108, 105, 110, 101, 45, 115, 112, 101, 101, 100, 32, 112, 111, 114, 116, 32, 105, 115, 32, 52,
            54, 56, 77, 112, 112, 83, 46, 32, 10, 32, 84, 104, 101, 114, 101, 102, 111, 114, 101, 44,
            32, 105, 102, 32, 119, 101, 32, 99, 97, 110, 32, 109, 101, 101, 116, 32, 116, 104, 101, 32,
            97, 98, 111, 118, 101, 32, 116, 104, 114, 101, 101, 32, 99, 111, 110, 100, 105, 116, 105, 111,
            110, 115, 44, 32, 116, 104, 101, 110, 32, 119, 101, 32, 115, 97, 121, 32, 116, 104, 97, 116,
            32, 116, 104, 105, 115, 32, 115, 119, 105, 116, 99, 104, 32, 105, 115, 32, 116, 114, 117, 108,
            121, 32, 108, 105, 110, 101, 97, 114, 32, 97, 110, 100, 32, 110, 111, 110, 45, 98, 108, 111,
            99, 107, 105, 110, 103, 59, 32, 116, 104, 101, 32, 98, 97, 99, 107, 45, 117, 112, 32, 114,
            97, 116, 101, 32, 111, 102, 32, 116, 104, 101, 32, 115, 119, 105, 116, 99, 104, 32, 105, 115,
            32, 103, 101, 110, 101, 114, 97, 108, 108, 121, 58, 32, 10, 32, 77, 98, 112, 115, 44, 32,
            119, 104, 105, 99, 104, 32, 114, 101, 102, 101, 114, 115, 32, 116, 111, 32, 116, 104, 101, 32,
            115, 101, 99, 111, 110, 100, 32, 108, 97, 121, 101, 114, 44, 32, 119, 104, 105, 99, 104, 32,
            105, 115, 32, 117, 115, 101, 100, 32, 102, 111, 114, 32, 116, 104, 101, 32, 101, 120, 99, 104,
            97, 110, 103, 101, 32, 111, 102, 32, 109, 111, 114, 101, 32, 116, 104, 97, 110, 32, 116, 104,
            114, 101, 101, 32, 108, 97, 121, 101, 114, 115, 46, 32, 10, 32, 77, 112, 112, 115, 32, 52,
            46, 32, 84, 104, 101, 32, 98, 97, 99, 107, 112, 108, 97, 110, 101, 32, 98, 97, 110, 100,
            119, 105, 100, 116, 104, 32, 100, 111, 101, 115, 32, 110, 111, 116, 32, 101, 120, 105, 115, 116,
            32, 105, 110, 32, 116, 104, 101, 32, 115, 119, 105, 116, 99, 104, 32, 119, 105, 116, 104, 32,
            116, 104, 101, 32, 102, 105, 120, 101, 100, 32, 112, 111, 114, 116, 46, 32, 10, 32, 84, 104,
            105, 115, 32, 99, 111, 110, 99, 101, 112, 116, 32, 105, 115, 32, 111, 110, 108, 121, 32, 112,
            111, 115, 115, 105, 98, 108, 101, 32, 119, 105, 116, 104, 32, 109, 111, 100, 117, 108, 97, 114,
            32, 115, 119, 105, 116, 99, 104, 101, 115, 32, 40, 119, 105, 116, 104, 32, 115, 99, 97, 108,
            97, 98, 108, 101, 32, 115, 108, 111, 116, 115, 32, 116, 104, 97, 116, 32, 99, 97, 110, 32,
            102, 108, 101, 120, 105, 98, 108, 121, 32, 99, 104, 97, 110, 103, 101, 32, 116, 104, 101, 32,
            110, 117, 109, 98, 101, 114, 32, 111, 102, 32, 112, 111, 114, 116, 115, 41, 46, 32, 70, 105,
            120, 101, 100, 45, 112, 111, 114, 116, 32, 115, 119, 105, 116, 99, 104, 101, 115, 32, 100, 111,
            32, 110, 111, 116, 32, 104, 97, 118, 101, 32, 116, 104, 105, 115, 32, 99, 111, 110, 99, 101,
            112, 116, 44, 32, 97, 110, 100, 32, 116, 104, 101, 32, 98, 97, 99, 107, 112, 108, 97, 110,
            101, 32, 99, 97, 112, 97, 99, 105, 116, 121, 32, 97, 110, 100, 32, 115, 119, 105, 116, 99,
            104, 105, 110, 103, 32, 99, 97, 112, 97, 99, 105, 116, 121, 32, 111, 102, 32, 102, 105, 120,
            101, 100, 45, 112, 111, 114, 116, 32, 115, 119, 105, 116, 99, 104, 101, 115, 32, 97, 114, 101,
            32, 101, 113, 117, 97, 108, 46, 32, 84, 104, 101, 32, 98, 97, 99, 107, 112, 108, 97, 110,
            101, 32, 98, 97, 110, 100, 119, 105, 100, 116, 104, 32, 100, 101, 116, 101, 114, 109, 105, 110,
            101, 115, 32, 116, 104, 101, 32, 109, 97, 120, 105, 109, 117, 109, 32, 98, 97, 110, 100, 119,
            105, 100, 116, 104, 32, 102, 111, 114, 32, 116, 104, 101, 32, 99, 111, 110, 110, 101, 99, 116,
            105, 111, 110, 32, 98, 101, 116, 119, 101, 101, 110, 32, 101, 97, 99, 104, 32, 98, 111, 97,
            114, 100, 32, 40, 105, 110, 99, 108, 117, 100, 105, 110, 103, 32, 98, 111, 97, 114, 100, 115,
            32, 116, 104, 97, 116, 32, 97, 114, 101, 32, 110, 111, 116, 32, 121, 101, 116, 32, 105, 110,
            115, 116, 97, 108, 108, 101, 100, 32, 105, 110, 32, 116, 104, 101, 32, 101, 120, 112, 97, 110,
            100, 97, 98, 108, 101, 32, 115, 108, 111, 116, 41, 32, 97, 110, 100, 32, 116, 104, 101, 32,
            115, 119, 105, 116, 99, 104, 105, 110, 103, 32, 101, 110, 103, 105, 110, 101, 46, 32, 68, 117,
            101, 32, 116, 111, 32, 116, 104, 101, 32, 100, 105, 102, 102, 101, 114, 101, 110, 116, 32, 97,
            114, 99, 104, 105, 116, 101, 99, 116, 117, 114, 101, 115, 32, 111, 102, 32, 109, 111, 100, 117,
            108, 97, 114, 32, 115, 119, 105, 116, 99, 104, 101, 115, 44, 32, 98, 97, 99, 107, 112, 108,
            97, 110, 101, 32, 98, 97, 110, 100, 119, 105, 100, 116, 104, 32, 105, 115, 32, 110, 111, 116,
            32, 102, 117, 108, 108, 121, 32, 101, 102, 102, 101, 99, 116, 105, 118, 101, 32, 97, 116, 32,
            114, 101, 112, 114, 101, 115, 101, 110, 116, 105, 110, 103, 32, 116, 104, 101, 32, 116, 114, 117,
            101, 32, 112, 101, 114, 102, 111, 114, 109, 97, 110, 99, 101, 32, 111, 102, 32, 116, 104, 101,
            32, 115, 119, 105, 116, 99, 104, 46, 32, 70, 105, 120, 101, 100, 32, 112, 111, 114, 116, 32,
            115, 119, 105, 116, 99, 104, 101, 115, 32, 100, 111, 32, 110, 111, 116, 32, 104, 97, 118, 101,
            32, 116, 104, 101, 32, 99, 111, 110, 99, 101, 112, 116, 32, 111, 102, 32, 98, 97, 99, 107,
            112, 108, 97, 110, 101, 32, 98, 97, 110, 100, 119, 105, 100, 116, 104, 46, 32, 83, 101, 99,
            111, 110, 100, 44, 32, 116, 104, 101, 32, 101, 120, 99, 104, 97, 110, 103, 101, 32, 99, 97,
            112, 97, 99, 105, 116, 121, 32, 10, 32, 73, 116, 32, 105, 115, 32, 116, 104, 101, 32, 116,
            114, 97, 110, 115, 109, 105, 115, 115, 105, 111, 110, 32, 99, 97, 112, 97, 99, 105, 116, 121,
            32, 111, 102, 32, 116, 104, 101, 32, 99, 111, 114, 101, 32, 67, 80, 85, 32, 97, 110, 100,
            32, 98, 117, 115, 44, 32, 103, 101, 110, 101, 114, 97, 108, 108, 121, 32, 115, 109, 97, 108,
            108, 101, 114, 32, 116, 104, 97, 110, 32, 116, 104, 101, 32, 98, 97, 99, 107, 112, 108, 97,
            110, 101, 32, 98, 97, 110, 100, 119, 105, 100, 116, 104, 46, 32, 72, 51, 67, 32, 108, 111,
            119, 45, 101, 110, 100, 32, 76, 83, 87, 32, 115, 119, 105, 116, 99, 104, 105, 110, 103, 32,
            117, 115, 101, 115, 32, 116, 104, 101, 32, 115, 116, 111, 114, 101, 45, 97, 110, 100, 45, 102,
            111, 114, 119, 97, 114, 100, 32, 109, 111, 100, 101, 46, 32, 84, 104, 101, 32, 115, 105, 122,
            101, 32, 111, 102, 32, 116, 104, 101, 32, 115, 119, 105, 116, 99, 104, 105, 110, 103, 32, 99,
            97, 112, 97, 99, 105, 116, 121, 32, 105, 115, 32, 100, 101, 116, 101, 114, 109, 105, 110, 101,
            100, 32, 98, 121, 32, 116, 104, 101, 32, 98, 105, 116, 32, 119, 105, 100, 116, 104, 32, 111,
            102, 32, 116, 104, 101, 32, 98, 117, 102, 102, 101, 114, 32, 40, 66, 85, 70, 70, 69, 82,
            41, 32, 97, 110, 100, 32, 105, 116, 115, 32, 98, 117, 115, 32, 102, 114, 101, 113, 117, 101,
            110, 99, 121, 46, 32, 84, 104, 97, 116, 32, 105, 115, 44, 32, 116, 104, 101, 32, 115, 119,
            105, 116, 99, 104, 105, 110, 103, 32, 99, 97, 112, 97, 99, 105, 116, 121, 32, 61, 32, 99,
            97, 99, 104, 101, 32, 98, 105, 116, 32, 119, 105, 100, 116, 104, 32, 42, 32, 99, 97, 99,
            104, 101, 32, 98, 117, 115, 32, 102, 114, 101, 113, 117, 101, 110, 99, 121, 32, 61, 32, 57,
            54, 32, 42, 32, 49, 51, 51, 32, 61, 32, 49, 50, 46, 56, 32, 71, 98, 112, 115, 32,
            72, 51, 67, 32, 104, 105, 103, 104, 45, 101, 110, 100, 32, 115, 119, 105, 116, 99, 104, 32,
            101, 120, 99, 104, 97, 110, 103, 101, 32, 99, 97, 112, 97, 99, 105, 116, 121, 32, 99, 97,
            110, 32, 98, 101, 32, 101, 113, 117, 97, 108, 32, 116, 111, 32, 116, 119, 105, 99, 101, 32,
            116, 104, 101, 32, 116, 111, 116, 97, 108, 32, 112, 111, 114, 116, 32, 99, 97, 112, 97, 99,
            105, 116, 121, 44, 32, 116, 111, 116, 97, 108, 32, 112, 111, 114, 116, 32, 99, 97, 112, 97,
            99, 105, 116, 121, 32, 61, 32, 50, 32, 42, 32, 40, 110, 32, 42, 32, 49, 48, 48, 77,
            98, 112, 115, 32, 43, 32, 109, 32, 42, 32, 49, 48, 48, 48, 77, 98, 112, 115, 41, 32,
            40, 32, 110, 58, 32, 105, 110, 100, 105, 99, 97, 116, 101, 115, 32, 116, 104, 97, 116, 32,
            116, 104, 101, 32, 115, 119, 105, 116, 99, 104, 32, 104, 97, 115, 32, 110, 32, 49, 48, 48,
            77, 32, 112, 111, 114, 116, 115, 44, 32, 109, 58, 32, 105, 110, 100, 105, 99, 97, 116, 101,
            115, 32, 116, 104, 97, 116, 32, 116, 104, 101, 32, 115, 119, 105, 116, 99, 104, 32, 104, 97,
            115, 32, 109, 32, 49, 48, 48, 48, 77, 32, 112, 111, 114, 116, 115, 46, 32, 10, 32, 51,
            46, 32, 84, 104, 101, 32, 112, 97, 99, 107, 101, 116, 32, 102, 111, 114, 119, 97, 114, 100,
            105, 110, 103, 32, 114, 97, 116, 101, 32, 102, 111, 114, 119, 97, 114, 100, 105, 110, 103, 32,
            99, 97, 112, 97, 98, 105, 108, 105, 116, 121, 32, 105, 115, 32, 109, 101, 97, 115, 117, 114,
            101, 100, 32, 98, 121, 32, 116, 104, 101, 32, 109, 105, 110, 105, 109, 117, 109, 32, 112, 97,
            99, 107, 101, 116, 32, 108, 101, 110, 103, 116, 104, 46, 32, 70, 111, 114, 32, 116, 104, 101,
            32, 69, 116, 104, 101, 114, 110, 101, 116, 32, 109, 105, 110, 105, 109, 117, 109, 32, 112, 97,
            99, 107, 101, 116, 32, 105, 115, 32, 54, 52, 66, 89, 84, 69, 44, 32, 112, 108, 117, 115,
            32, 116, 104, 101, 32, 102, 114, 97, 109, 101, 32, 111, 118, 101, 114, 104, 101, 97, 100, 32,
            50, 48, 66, 89, 84, 69, 46, 32, 84, 104, 101, 114, 101, 102, 111, 114, 101, 44, 32, 116,
            104, 101, 32, 109, 105, 110, 105, 109, 117, 109, 32, 112, 97, 99, 107, 97, 103, 101, 32, 105,
            115, 32, 56, 52, 66, 89, 84, 69, 46, 32, 70, 111, 114, 32, 97, 32, 102, 117, 108, 108,
            45, 100, 117, 112, 108, 101, 120, 32, 49, 48, 48, 48, 77, 98, 112, 115, 32, 105, 110, 116,
            101, 114, 102, 97, 99, 101, 32, 116, 111, 32, 97, 99, 104, 105, 101, 118, 101, 32, 108, 105,
            110, 101, 32, 115, 112, 101, 101, 100, 32, 114, 101, 113, 117, 105, 114, 101, 109, 101, 110, 116,
            115, 58, 32, 102, 111, 114, 119, 97, 114, 100, 105, 110, 103, 32, 99, 97, 112, 97, 99, 105,
            116, 121, 32, 61, 32, 49, 48, 48, 48, 77, 98, 112, 115, 32, 47, 32, 40, 40, 54, 52,
            32, 43, 32, 50, 48, 41, 32, 42, 32, 56, 98, 105, 116, 41, 32, 61, 32, 49, 46, 52,
            56, 56, 77, 112, 112, 115, 32, 102, 111, 114, 32, 97, 32, 102, 117, 108, 108, 45, 100, 117,
            112, 108, 101, 120, 32, 49, 48, 48, 77, 98, 112, 115, 32, 105, 110, 116, 101, 114, 102, 97,
            99, 101, 32, 116, 111, 32, 97, 99, 104, 105, 101, 118, 101, 32, 108, 105, 110, 101, 32, 115,
            112, 101, 101, 100, 32, 114, 101, 113, 117, 105, 114, 101, 109, 101, 110, 116, 115, 58, 32, 102,
            111, 114, 119, 97, 114, 100, 105, 110, 103, 32, 99, 97, 112, 97, 99, 105, 116, 121, 32, 61,
            32, 49, 48, 48, 77, 98, 112, 115, 32, 47, 32, 40, 40, 54, 52, 43, 50, 48, 41, 42,
            56, 98, 105, 116, 41, 61, 48, 46, 49, 52, 57, 77, 112, 112, 115, 32, 85, 110, 105, 116,
            58, 32, 77, 112, 112, 115, 32, 40, 77, 105, 108, 108, 105, 111, 110, 32, 112, 97, 99, 107,
            101, 116, 115, 32, 112, 101, 114, 32, 115, 101, 99, 111, 110, 100, 41, 32, 84, 104, 105, 115,
            32, 97, 114, 116, 105, 99, 108, 101, 32, 105, 115, 32, 102, 114, 111, 109, 32, 116, 104, 101,
            32, 34, 83, 110, 111, 119, 32, 77, 111, 111, 110, 32, 83, 116, 117, 100, 105, 111, 34, 32,
            98, 108, 111, 103, 44, 32, 112, 108, 101, 97, 115, 101, 32, 98, 101, 32, 115, 117, 114, 101,
            32, 116, 111, 32, 107, 101, 101, 112, 32, 116, 104, 105, 115, 32, 115, 111, 117, 114, 99, 101,
            32, 32, 104, 116, 116, 112, 58, 47, 47, 120, 117, 101, 121, 117, 101, 56, 46, 98, 108, 111,
            103, 46, 53, 49, 99, 116, 111, 46, 99, 111, 109, 47, 52, 54, 53, 48, 50, 52, 57, 47,
            49, 55, 54, 53, 55, 53, 48, 32, 32, 32, 72, 111, 119, 32, 105, 115, 32, 116, 104, 101,
            32, 98, 97, 99, 107, 112, 108, 97, 110, 101, 32, 98, 97, 110, 100, 119, 105, 100, 116, 104,
            44, 32, 115, 119, 105, 116, 99, 104, 105, 110, 103, 32, 99, 97, 112, 97, 99, 105, 116, 121,
            44, 32, 97, 110, 100, 32, 112, 97, 99, 107, 101, 116, 32, 102, 111, 114, 119, 97, 114, 100,
            105, 110, 103, 32, 114, 97, 116, 101, 32, 111, 102, 32, 116, 104, 101, 32, 115, 119, 105, 116,
            99, 104, 32, 99, 97, 108, 99, 117, 108, 97, 116, 101, 100, 63, 32, 70, 111, 114, 32, 116,
            104, 101, 32, 109, 97, 110, 117, 102, 97, 99, 116, 117, 114, 101, 114, 115, 44, 32, 116, 104,
            101, 32, 115, 116, 97, 110, 100, 97, 114, 100, 32, 105, 115, 32, 104, 105, 103, 104, 101, 114,
            32, 116, 104, 97, 110, 32, 116, 104, 101, 32, 108, 105, 110, 101, 32, 115, 112, 101, 101, 100,
            32, 102, 111, 114, 119, 97, 114, 100, 105, 110, 103, 46 >>),
         tags  |-> Str(<<>>),
         url   |-> Str(<<83, 119, 105, 116, 99, 104, 46, 104, 116, 109, 108>>)]),
    \* pages[6]: url 'Google.html', text of 0 code units
    Obj([title |-> Str(<<71, 111, 111, 103, 108, 101>>),
         text  |-> Str(<<>>),
         tags  |-> Str(<<>>),
         url   |-> Str(<<71, 111, 111, 103, 108, 101, 46, 104, 116, 109, 108>>)]),
    \* pages[7]: url 'Flask.html', text of 47 code units
    Obj([title |-> Str(<<70, 108, 97, 115, 107>>),
         text  |-> Str(<<
            104, 116, 116, 112, 115, 58, 47, 47, 102, 108, 97, 115, 107, 46, 112, 97, 108, 108, 101, 116,
            115, 112, 114, 111, 106, 101, 99, 116, 115, 46, 99, 111, 109, 47, 101, 110, 47, 49, 46, 49,
            46, 120, 47, 32, 32, 32, 10 >>),
         tags  |-> Str(<<>>),
         url   |-> Str(<<70, 108, 97, 115, 107, 46, 104, 116, 109, 108>>)]),
    \* pages[8]: url 'Oauth2.html', text of 97 code units
    Obj([title |-> Str(<<79, 97, 117, 116, 104, 50>>),
         text  |-> Str(<<
            104, 116, 116, 112, 115, 58, 47, 47, 103, 105, 116, 104, 117, 98, 46, 99, 111, 109, 47, 122,
            113, 117, 101, 115, 116, 122, 47, 111, 109, 110, 105, 97, 117, 116, 104, 45, 103, 111, 111, 103,
            108, 101, 45, 111, 97, 117, 116, 104, 50, 32, 10, 32, 104, 116, 116, 112, 115, 58, 47, 47,
            103, 105, 116, 104, 117, 98, 46, 99, 111, 109, 47, 116, 104, 101, 112, 104, 112, 108, 101, 97,
            103, 117, 101, 47, 111, 97, 117, 116, 104, 50, 45, 103, 111, 111, 103, 108, 101 >>),
         tags  |-> Str(<<>>),
         url   |-> Str(<<79, 97, 117, 116, 104, 50, 46, 104, 116, 109, 108>>)]),
    \* pages[9]: url 'Calendar API.html', text of 56 code units
    Obj([title |-> Str(<<67, 97, 108, 101, 110, 100, 97, 114, 32, 65, 80, 73>>),
         text  |-> Str(<<
            104, 116, 116, 112, 115, 58, 47, 47, 103, 105, 116, 104, 117, 98, 46, 99, 111, 109, 47, 107,
            117, 122, 109, 111, 121, 101, 118, 47, 103, 111, 111, 103, 108, 101, 45, 99, 97, 108, 101, 110,
            100, 97, 114, 45, 115, 105, 109, 112, 108, 101, 45, 97, 112, 105, 32, 10 >>),
         tags  |-> Str(<<>>),
         url   |-> Str(<<
            67, 97, 108, 101, 110, 100, 97, 114, 32, 65, 80, 73, 46, 104, 116, 109, 108 >>)]),
    \* pages[10]: url 'Drive API.html', text of 39 code units
    Obj([title |-> Str(<<68, 114, 105, 118, 101, 32, 65, 80, 73>>),
         text  |-> Str(<<
            104, 116, 116, 112, 115, 58, 47, 47, 103, 105, 116, 104, 117, 98, 46, 99, 111, 109, 47, 105,
            116, 101, 114, 97, 116, 105, 118, 101, 47, 80, 121, 68, 114, 105, 118, 101, 50, 32, 32 >>),
         tags  |-> Str(<<>>),
         url   |-> Str(<<68, 114, 105, 118, 101, 32, 65, 80, 73, 46, 104, 116, 109, 108>>)]),
    \* pages[11]: url 'Web Site.html', text of 424 code units
    Obj([title |-> Str(<<87, 101, 98, 32, 83, 105, 116, 101>>),
         text  |-> Str(<<
            21033, 29992, 32, 71, 105, 116, 104, 117, 98, 32, 33287, 32, 71, 105, 116, 108, 97, 98, 32, 20489,
            20786, 24314, 31435, 20491, 20154, 32178, 38913, 32, 10, 32, 20309, 35586, 32178, 38555, 20839, 23481, 31649, 29702, 63, 32,
            10, 32, 87, 101, 98, 45, 98, 97, 115, 101, 100, 32, 67, 111, 110, 116, 101, 110, 116, 32,
            77, 97, 110, 97, 103, 101, 109, 101, 110, 116, 32, 10, 32, 67, 111, 110, 116, 101, 110, 116,
            63, 32, 10, 32, 51, 68, 32, 38646, 32068, 20214, 32, 10, 32, 104, 116, 116, 112, 115, 58, 47,
            47, 119, 119, 119, 46, 111, 110, 115, 104, 97, 112, 101, 46, 99, 111, 109, 32, 10, 32, 33521,
            25991, 23416, 32722, 32000, 37636, 32, 10, 32, 25976, 23416, 23416, 32722, 32000, 37636, 32, 10, 32, 23560, 26989, 35506,
            31243, 23416, 32722, 32000, 37636, 32, 10, 32, 86, 105, 100, 101, 111, 32, 10, 32, 104, 116, 116, 112,
            115, 58, 47, 47, 103, 105, 116, 104, 117, 98, 46, 99, 111, 109, 47, 83, 104, 97, 114, 101,
            88, 47, 83, 104, 97, 114, 101, 88, 32, 10, 32, 104, 116, 116, 112, 115, 58, 47, 47, 119,
            119, 119, 46, 98, 108, 101, 110, 100, 101, 114, 46, 111, 114, 103, 47, 32, 10, 32, 65, 117,
            100, 105, 111, 32, 10, 32, 104, 116, 116, 112, 115, 58, 47, 47, 119, 119, 119, 46, 97, 117,
            100, 97, 99, 105, 116, 121, 116, 101, 97, 109, 46, 111, 114, 103, 47, 32, 10, 32, 73, 109,
            97, 103, 101, 115, 32, 10, 32, 104, 116, 116, 112, 115, 58, 47, 47, 119, 119, 119, 46, 103,
            105, 109, 112, 46, 111, 114, 103, 47, 32, 10, 32, 104, 116, 116, 112, 115, 58, 47, 47, 105,
            110, 107, 115, 99, 97, 112, 101, 46, 111, 114, 103, 47, 32, 10, 32, 65, 110, 105, 109, 97,
            116, 105, 111, 110, 32, 10, 32, 71, 105, 116, 104, 117, 98, 32, 26159, 29978, 40636, 63, 32, 10,
            32, 71, 105, 116, 108, 97, 98, 32, 21448, 26159, 29978, 40636, 63, 32, 10, 32, 33258, 34892, 22312, 32,
            85, 98, 117, 110, 116, 117, 32, 25805, 20316, 31995, 32113, 19978, 23433, 35037, 32, 71, 105, 116, 108, 97,
            98, 63, 32, 10, 32, 85, 98, 117, 110, 116, 117, 32, 25805, 20316, 31995, 32113, 63, 32, 10, 32,
            23526, 39636, 31995, 32113, 32, 10, 32, 34395, 25836, 31995, 32113, 32, 10, 32, 86, 105, 114, 116, 117, 97,
            108, 98, 111, 120 >>),
         tags  |-> Str(<<>>),
         url   |-> Str(<<87, 101, 98, 32, 83, 105, 116, 101, 46, 104, 116, 109, 108>>)])
  >>

\* The array literal under "pages" in src/unnamed/part_000: 19 object
\* literals in source order, every string literal decoded to its UTF-16 code units.
part_000_pages ==
  <<
    \* pages[0]: url 'About.html', text of 677 code units
    Obj([title |-> Str(<<65, 98, 111, 117, 116>>),
         text  |-> Str(<<
            20309, 35586, 32178, 38555, 20839, 23481, 31649, 29702, 63, 32, 10, 32, 22312, 32178, 38555, 36914, 34892, 25976, 20301, 20839,
            23481, 36039, 26009, 30340, 31649, 29702, 32, 10, 32, 20309, 35586, 32178, 38555, 63, 32, 10, 32, 87, 101, 98,
            45, 98, 97, 115, 101, 100, 32, 10, 32, 20309, 35586, 32, 87, 101, 98, 63, 32, 10, 32, 87,
            111, 114, 108, 100, 45, 87, 105, 100, 101, 45, 87, 101, 98, 32, 10, 32, 99, 108, 105, 101,
            110, 116, 45, 98, 114, 111, 119, 115, 101, 114, 44, 32, 115, 101, 114, 118, 101, 114, 45, 87,
            87, 87, 32, 115, 101, 114, 118, 101, 114, 32, 10, 32, 20309, 35586, 25976, 20301, 20839, 23481, 63, 32,
            10, 32, 33021, 22816, 20197, 25976, 20301, 26684, 24335, 20786, 23384, 30340, 20839, 23481, 32, 10, 32, 116, 101, 120,
            116, 44, 32, 101, 113, 117, 97, 116, 105, 111, 110, 44, 32, 112, 108, 111, 116, 44, 32, 105,
            109, 97, 103, 101, 115, 44, 32, 97, 117, 100, 105, 111, 44, 32, 118, 105, 100, 101, 111, 44,
            32, 109, 117, 108, 116, 105, 45, 109, 101, 100, 105, 97, 32, 97, 110, 105, 109, 97, 116, 105,
            111, 110, 32, 10, 32, 20309, 35586, 31649, 29702, 63, 32, 10, 32, 20998, 38272, 21029, 39006, 25972, 29702, 24460,
            20415, 26044, 20445, 23384, 44, 32, 26597, 25214, 44, 32, 20998, 20139, 25976, 20301, 20839, 23481, 32, 10, 32, 31649,
            29702, 30340, 30446, 30340, 28858, 20309, 63, 32, 10, 32, 32000, 37636, 35299, 27770, 21839, 38988, 30340, 36942, 31243, 44,
            32, 26399, 20877, 27425, 30896, 21040, 39006, 20284, 21839, 38988, 26178, 21487, 20197, 20760, 37327, 37325, 29992, 20839, 23481, 32,
            10, 32, 28858, 20309, 22823, 22810, 25976, 20839, 23481, 37325, 29992, 21482, 33021, 26159, 20760, 37327, 37325, 29992, 63, 32,
            10, 32, 22240, 28858, 29872, 22659, 26371, 35722, 44, 32, 24037, 20855, 26371, 35722, 44, 32, 25972, 39636, 24037, 20316,
            29872, 22659, 31995, 32113, 20063, 26371, 19981, 26039, 25913, 35722, 32, 10, 32, 22519, 34892, 32178, 38555, 20839, 23481, 31649,
            29702, 38656, 19981, 38656, 35201, 23531, 31243, 24335, 63, 32, 10, 32, 19981, 23531, 44, 32, 21487, 20197, 29992, 20854,
            20182, 20154, 23531, 30340, 24037, 20855, 33287, 22871, 20214, 32, 10, 32, 33258, 24049, 23531, 44, 32, 21063, 21487, 20197,
            20381, 29031, 33258, 24049, 25110, 22296, 38538, 30340, 38656, 27714, 44, 32, 37327, 36523, 35330, 20570, 33258, 24049, 38656, 35201,
            30340, 24037, 20855, 25110, 31649, 29702, 31995, 32113, 32, 10, 32, 20998, 32068, 23560, 38988, 58, 32, 10, 32, 87,
            51, 32, 33258, 36984, 32068, 21729, 44, 32, 54, 32, 20154, 19968, 32068, 46, 32, 10, 32, 87, 49, 48,
            32, 20043, 24460, 30340, 23560, 38988, 38988, 30446, 33258, 36984, 44, 32, 20006, 22312, 32, 32, 104, 116, 116, 112,
            115, 58, 47, 47, 103, 105, 116, 104, 117, 98, 46, 99, 111, 109, 47, 109, 100, 101, 99, 111,
            117, 114, 115, 101, 47, 119, 99, 109, 106, 50, 48, 50, 49, 47, 100, 105, 115, 99, 117, 115,
            115, 105, 111, 110, 115, 32, 32, 36914, 34892, 35342, 35542, 32, 10, 32, 35413, 20998, 58, 32, 10, 32,
            20986, 24109, 32, 49, 48, 37, 32, 10, 32, 20491, 20154, 20489, 20786, 33287, 32178, 38913, 32, 51, 48, 37,
            32, 10, 32, 27599, 36913, 32178, 38555, 31777, 22577, 32, 104, 116, 109, 108, 32, 33287, 32, 80, 100, 102,
            32, 22577, 21578, 32, 54, 48, 37, 32, 40, 21547, 32, 89, 111, 117, 116, 117, 98, 101, 32, 25805,
            20316, 24433, 29255, 41, 32, 10, 32, 82, 101, 112, 111, 115, 105, 116, 111, 114, 121, 32, 116, 101,
            109, 112, 108, 97, 116, 101, 58, 32, 32, 104, 116, 116, 112, 115, 58, 47, 47, 103, 105, 116,
            104, 117, 98, 46, 99, 111, 109, 47, 109, 100, 101, 99, 111, 117, 114, 115, 101, 47, 99, 109,
            115, 116, 101, 109, 112, 108, 97, 116, 101, 32, 10, 32, 38651, 33126, 36628, 21161, 35373, 35336, 23460, 33287,
            21332, 21516, 35373, 35336, 23460, 34892, 20107, 26310, 32, 10, 32, 20840, 38913, 27298, 35222, 32, 10 >>),
         tags  |-> Str(<<>>),
         url   |-> Str(<<65, 98, 111, 117, 116, 46, 104, 116, 109, 108>>)]),
    \* pages[1]: url '?????.html', text of 927 code units
    Obj([title |-> Str(<<19977, 36947, 29254, 29702, 35542>>),
         text  |-> Str(<<
            75, 77, 79, 76, 97, 98, 32, 25152, 38283, 35373, 35506, 31243, 30446, 30340, 26159, 23559, 25803, 22312, 27231, 26800,
            24037, 31243, 24107, 38754, 21069, 30340, 19977, 36947, 29254, 44, 32, 30452, 25509, 21033, 29992, 35506, 31243, 35611, 25480, 30340,
            36942, 31243, 44, 32, 19968, 19968, 21576, 29694, 44, 32, 35731, 22823, 23478, 26377, 21450, 26178, 25214, 20986, 31361, 30772,
            36889, 19977, 36947, 38556, 31001, 30340, 27231, 26371, 44, 32, 19981, 20677, 35731, 21508, 33258, 30340, 28507, 33021, 26377, 25152,
            30332, 25582, 44, 32, 21516, 26178, 20063, 24076, 26395, 22823, 23478, 33021, 26356, 33258, 22312, 22320, 38754, 23565, 26410, 20358,
            30340, 26356, 22810, 25361, 25136, 46, 32, 36889, 19977, 36947, 29254, 20998, 21029, 26159, 58, 32, 10, 32, 29702, 35542,
            22522, 30990, 38556, 31001, 32, 23526, 21209, 32244, 32722, 38556, 31001, 32, 30906, 31435, 30446, 27161, 38556, 31001, 32, 10,
            32, 29702, 35542, 22522, 30990, 38556, 31001, 32, 10, 32, 25152, 35586, 30340, 29702, 35542, 22522, 30990, 38556, 31001, 23601,
            26159, 25216, 32887, 39636, 31995, 23416, 29983, 22312, 39640, 20013, 38542, 27573, 32147, 24120, 30095, 24573, 30340, 33521, 25991, 44,
            32, 25976, 23416, 33287, 37007, 36655, 24605, 32771, 33287, 29554, 21462, 23416, 21839, 30340, 22522, 26412, 33021, 21147, 46, 32,
            20063, 23601, 26159, 33521, 25991, 32893, 35498, 35712, 23531, 30340, 22522, 26412, 33021, 21147, 44, 32, 25976, 23416, 22522, 26412,
            33021, 21147, 33287, 20102, 35299, 22914, 20309, 36879, 36942, 37007, 36655, 24605, 32771, 35299, 38988, 44, 32, 20006, 19988, 23416,
            32722, 22914, 20309, 30332, 21839, 44, 32, 22914, 20309, 33287, 20154, 21332, 21516, 21512, 20316, 35299, 27770, 21839, 38988, 30340,
            33021, 21147, 46, 32, 10, 32, 104, 116, 116, 112, 58, 47, 47, 109, 100, 101, 46, 116, 119, 47,
            99, 97, 100, 50, 48, 50, 48, 47, 99, 111, 110, 116, 101, 110, 116, 47, 87, 49, 48, 45,
            87, 49, 52, 46, 104, 116, 109, 108, 32, 10, 32, 23526, 21209, 32244, 32722, 38556, 31001, 32, 10, 32,
            31532, 20108, 36947, 29254, 21063, 26159, 23526, 21209, 32244, 32722, 38556, 31001, 44, 32, 35377, 22810, 20154, 19981, 39000, 24847,
            33457, 26178, 38291, 22312, 31361, 30772, 19978, 36848, 31532, 19968, 36947, 38556, 31001, 30340, 21407, 22240, 44, 32, 36890, 24120,
            26159, 22240, 28858, 19981, 30693, 36947, 23416, 32722, 36889, 20123, 30456, 23565, 25277, 35937, 30340, 30693, 35672, 26377, 29978, 40636,
            29992, 34389, 63, 32, 22240, 27492, 44, 32, 28858, 20102, 20984, 39023, 31361, 30772, 31532, 19968, 36947, 29254, 30340, 37325,
            35201, 24615, 44, 32, 23601, 24517, 38920, 35201, 36879, 36942, 23526, 38555, 30340, 35506, 31243, 26696, 20363, 44, 32, 35731,
            22823, 23478, 20102, 35299, 19968, 26086, 33021, 31361, 30772, 31532, 19968, 36947, 29254, 30340, 38556, 31001, 24460, 44, 32, 39178,
            25104, 25345, 32396, 23416, 32722, 36889, 20123, 29702, 35542, 22522, 30990, 20839, 23481, 20043, 24460, 44, 32, 23601, 21487, 20197,
            30456, 23565, 29992, 27604, 36611, 26377, 25928, 29575, 30340, 26041, 24335, 35299, 27770, 21508, 31278, 21839, 38988, 46, 32, 10,
            32, 20294, 26159, 36889, 38656, 35201, 23416, 32722, 32773, 20184, 20986, 26178, 38291, 33287, 32784, 24615, 44, 32, 30070, 38754,
            23565, 23436, 20840, 38476, 29983, 35696, 38988, 26178, 44, 32, 23601, 24517, 38920, 27298, 35342, 26159, 21542, 31532, 19968, 36947,
            29254, 20173, 28982, 21345, 22312, 33258, 24049, 33287, 35299, 27770, 26041, 26696, 20013, 38291, 46, 32, 28982, 24460, 29992, 24515,
            19981, 26039, 24605, 32771, 44, 32, 25506, 32034, 33287, 32244, 32722, 20043, 24460, 44, 32, 33509, 36996, 26159, 28961, 27861,
            35299, 27770, 21839, 38988, 46, 32, 23601, 24517, 38920, 35201, 20808, 35430, 33879, 25551, 36848, 21839, 38988, 24460, 20877, 23563,
            27714, 20182, 20154, 30340, 21332, 21161, 46, 32, 10, 32, 20551, 22914, 33021, 26377, 20197, 19978, 30340, 27491, 30906, 23416,
            32722, 24907, 24230, 44, 32, 23601, 26377, 27231, 26371, 22312, 38754, 23565, 21508, 31278, 21839, 38988, 26178, 44, 32, 25345,
            32396, 31361, 30772, 21069, 38754, 30340, 20841, 36947, 29254, 44, 32, 28982, 24460, 30475, 21040, 33258, 24049, 25152, 36861, 27714,
            30340, 31532, 19977, 36947, 29254, 44, 32, 20006, 19988, 27492, 24460, 33021, 22816, 31469, 30433, 20840, 21147, 44, 32, 32763,
            38321, 31532, 19977, 36947, 29254, 30340, 38556, 31001, 44, 32, 31309, 26997, 36948, 25104, 38928, 23450, 30446, 27161, 46, 32,
            10, 32, 104, 116, 116, 112, 58, 47, 47, 109, 100, 101, 46, 116, 119, 47, 99, 97, 100, 50,
            48, 50, 48, 47, 99, 111, 110, 116, 101, 110, 116, 47, 72, 87, 49, 46, 104, 116, 109, 108,
            32, 10, 32, 104, 116, 116, 112, 58, 47, 47, 109, 100, 101, 46, 116, 119, 47, 99, 97, 100,
            50, 48, 50, 48, 47, 99, 111, 110, 116, 101, 110, 116, 47, 72, 87, 50, 46, 104, 116, 109,
            108, 32, 10, 32, 104, 116, 116, 112, 58, 47, 47, 109, 100, 101, 46, 116, 119, 47, 99, 97,
            100, 50, 48, 50, 48, 47, 99, 111, 110, 116, 101, 110, 116, 47, 72, 87, 49, 95, 83, 87,
            46, 104, 116, 109, 108, 32, 10, 32, 104, 116, 116, 112, 115, 58, 47, 47, 103, 105, 116, 104,
            117, 98, 46, 99, 111, 109, 47, 75, 109, 111, 108, 89, 117, 97, 110, 47, 80, 121, 115, 108,
            118, 115, 45, 85, 73, 32, 10, 32, 30906, 31435, 30446, 27161, 38556, 31001, 32, 10, 32, 20320, 30340, 20154,
            29983, 30446, 27161, 26159, 29978, 40636, 63, 32, 10, 32, 104, 116, 116, 112, 115, 58, 47, 47, 119, 119,
            119, 46, 112, 116, 116, 46, 99, 99, 47, 98, 98, 115, 47, 84, 101, 99, 104, 95, 74, 111,
            98, 47, 77, 46, 49, 53, 56, 56, 51, 54, 50, 55, 50, 56, 46, 65, 46, 49, 52, 70,
            46, 104, 116, 109, 108, 32, 32 >>),
         tags  |-> Str(<<>>),
         url   |-> Str(<<19977, 36947, 29254, 29702, 35542, 46, 104, 116, 109, 108>>)]),
    \* pages[2]: url 'Blogger.html', text of 366 code units
    Obj([title |-> Str(<<66, 108, 111, 103, 103, 101, 114>>),
         text  |-> Str(<<
            32178, 35468, 58, 32, 10, 32, 104, 116, 116, 112, 115, 58, 47, 47, 119, 119, 119, 46, 98, 108,
            111, 103, 103, 101, 114, 46, 99, 111, 109, 47, 32, 10, 32, 104, 116, 116, 112, 115, 58, 47,
            47, 98, 108, 111, 103, 46, 103, 101, 116, 112, 101, 108, 105, 99, 97, 110, 46, 99, 111, 109,
            47, 32, 10, 32, 35542, 22727, 58, 32, 10, 32, 104, 116, 116, 112, 115, 58, 47, 47, 119, 119,
            119, 46, 100, 105, 115, 99, 111, 117, 114, 115, 101, 46, 111, 114, 103, 47, 32, 10, 32, 104,
            116, 116, 112, 115, 58, 47, 47, 106, 112, 109, 101, 46, 101, 110, 103, 46, 110, 102, 117, 46,
            101, 100, 117, 46, 116, 119, 32, 10, 32, 104, 116, 116, 112, 115, 58, 47, 47, 102, 111, 114,
            117, 109, 46, 101, 110, 103, 46, 110, 102, 117, 46, 101, 100, 117, 46, 116, 119, 32, 10, 32,
            66, 108, 111, 103, 103, 101, 114, 44, 32, 80, 101, 108, 105, 99, 97, 110, 32, 33287, 32, 68,
            105, 115, 99, 111, 117, 114, 115, 101, 32, 20839, 23481, 33021, 19981, 33021, 25972, 21512, 20006, 21516, 27493, 63,
            32, 10, 32, 104, 116, 116, 112, 115, 58, 47, 47, 109, 100, 101, 99, 111, 117, 114, 115, 101,
            46, 98, 108, 111, 103, 115, 112, 111, 116, 46, 99, 111, 109, 47, 50, 48, 50, 48, 47, 48,
            53, 47, 112, 101, 108, 105, 99, 97, 110, 45, 98, 108, 111, 103, 103, 101, 114, 95, 50, 49,
            46, 104, 116, 109, 108, 32, 10, 32, 104, 116, 116, 112, 115, 58, 47, 47, 109, 101, 116, 97,
            46, 100, 105, 115, 99, 111, 117, 114, 115, 101, 46, 111, 114, 103, 47, 116, 47, 104, 111, 119,
            45, 99, 97, 110, 45, 105, 45, 105, 109, 112, 108, 101, 109, 101, 110, 116, 45, 97, 45, 98,
            108, 111, 103, 45, 112, 97, 103, 101, 45, 105, 110, 45, 100, 105, 115, 99, 111, 117, 114, 115,
            101, 45, 102, 111, 114, 117, 109, 45, 115, 111, 102, 116, 119, 97, 114, 101, 47, 52, 56, 52,
            57, 54, 47, 54, 32, 10 >>),
         tags  |-> Str(<<>>),
         url   |-> Str(<<66, 108, 111, 103, 103, 101, 114, 46, 104, 116, 109, 108>>)]),
    \* pages[3]: url '????.html', text of 798 code units
    Obj([title |-> Str(<<20491, 20154, 38651, 33126>>),
         text  |-> Str(<<
            27231, 26800, 24037, 31243, 24107, 30001, 26044, 24517, 38920, 22312, 20491, 20154, 38651, 33126, 19978, 32362, 35069, 20006, 39023, 31034,
            32, 51, 68, 32, 38646, 32068, 20214, 44, 32, 22240, 27492, 20491, 20154, 38651, 33126, 36890, 24120, 38656, 35201, 37197,
            20633, 29544, 31435, 39023, 31034, 21345, 44, 32, 20854, 22522, 26412, 35215, 26684, 33287, 38651, 31478, 27231, 39006, 20284, 58,
            32, 10, 32, 104, 116, 116, 112, 115, 58, 47, 47, 119, 119, 119, 46, 99, 114, 117, 99, 105,
            97, 108, 46, 116, 119, 47, 97, 114, 116, 105, 99, 108, 101, 115, 47, 102, 111, 114, 45, 103,
            97, 109, 101, 114, 115, 47, 116, 104, 101, 45, 98, 101, 115, 116, 45, 115, 112, 101, 99, 115,
            45, 102, 111, 114, 45, 97, 45, 103, 97, 109, 105, 110, 103, 45, 112, 99, 32, 10, 32, 67,
            80, 85, 32, 40, 32, 67, 101, 110, 116, 114, 97, 108, 32, 80, 114, 111, 99, 101, 115, 115,
            105, 110, 103, 32, 85, 110, 105, 116, 32, 41, 32, 45, 32, 20013, 22830, 34389, 29702, 22120, 32, 10,
            32, 73, 110, 116, 101, 108, 32, 80, 114, 111, 99, 101, 115, 115, 111, 114, 58, 32, 32, 104,
            116, 116, 112, 115, 58, 47, 47, 101, 110, 46, 119, 105, 107, 105, 112, 101, 100, 105, 97, 46,
            111, 114, 103, 47, 119, 105, 107, 105, 47, 76, 105, 115, 116, 95, 111, 102, 95, 73, 110, 116,
            101, 108, 95, 112, 114, 111, 99, 101, 115, 115, 111, 114, 115, 32, 10, 32, 65, 77, 68, 32,
            80, 114, 111, 99, 101, 115, 115, 111, 114, 58, 32, 32, 104, 116, 116, 112, 115, 58, 47, 47,
            101, 110, 46, 119, 105, 107, 105, 112, 101, 100, 105, 97, 46, 111, 114, 103, 47, 119, 105, 107,
            105, 47, 76, 105, 115, 116, 95, 111, 102, 95, 65, 77, 68, 95, 112, 114, 111, 99, 101, 115,
            115, 111, 114, 115, 32, 10, 32, 65, 82, 77, 32, 65, 114, 99, 104, 105, 116, 101, 99, 116,
            117, 114, 101, 58, 32, 32, 104, 116, 116, 112, 115, 58, 47, 47, 101, 110, 46, 119, 105, 107,
            105, 112, 101, 100, 105, 97, 46, 111, 114, 103, 47, 119, 105, 107, 105, 47, 65, 82, 77, 95,
            97, 114, 99, 104, 105, 116, 101, 99, 116, 117, 114, 101, 32, 10, 32, 65, 112, 112, 108, 101,
            32, 68, 101, 115, 105, 103, 110, 101, 100, 32, 80, 114, 111, 99, 101, 115, 115, 111, 114, 58,
            160, 32, 104, 116, 116, 112, 115, 58, 47, 47, 101, 110, 46, 119, 105, 107, 105, 112, 101, 100,
            105, 97, 46, 111, 114, 103, 47, 119, 105, 107, 105, 47, 65, 112, 112, 108, 101, 45, 100, 101,
            115, 105, 103, 110, 101, 100, 95, 112, 114, 111, 99, 101, 115, 115, 111, 114, 115, 32, 32, 12288,
            32, 10, 32, 70, 85, 76, 76, 32, 72, 68, 32, 40, 32, 72, 105, 103, 104, 32, 68, 101,
            102, 105, 110, 105, 116, 105, 111, 110, 32, 41, 32, 10, 32, 77, 111, 116, 104, 101, 114, 98,
            111, 97, 114, 100, 32, 32, 20027, 27231, 26495, 32, 10, 32, 82, 65, 77, 32, 40, 32, 82, 97,
            110, 100, 111, 109, 45, 65, 99, 99, 101, 115, 115, 32, 77, 101, 109, 111, 114, 121, 32, 41,
            32, 10, 32, 68, 68, 82, 32, 40, 32, 68, 111, 117, 98, 108, 101, 32, 68, 97, 116, 97,
            32, 82, 97, 116, 101, 32, 41, 32, 10, 32, 20309, 35586, 32, 72, 68, 68, 47, 83, 83, 68,
            63, 32, 26377, 20309, 24046, 21029, 63, 32, 10, 32, 20309, 35586, 32, 82, 80, 77, 63, 32, 10, 32,
            20309, 35586, 32, 65, 84, 65, 12289, 80, 65, 84, 65, 12289, 33287, 32, 83, 65, 84, 65, 32, 36899,
            25509, 22496, 63, 32, 26377, 20309, 24046, 21029, 63, 32, 10, 32, 20309, 35586, 32, 86, 105, 100, 101, 111,
            32, 67, 97, 114, 100, 63, 32, 10, 32, 20309, 35586, 32, 102, 112, 115, 63, 32, 10, 32, 20309,
            35586, 32, 68, 86, 73, 63, 32, 10, 32, 20309, 35586, 32, 72, 68, 77, 73, 63, 32, 10, 32,
            20309, 35586, 32, 32, 76, 69, 68, 32, 63, 32, 10, 32, 20309, 35586, 32, 68, 105, 114, 101, 99,
            116, 88, 63, 32, 10, 32, 20309, 35586, 32, 32, 87, 97, 116, 116, 32, 63, 32, 10, 32, 20309,
            35586, 32, 32, 80, 111, 119, 101, 114, 32, 63, 32, 10, 32, 20309, 35586, 32, 72, 122, 32, 40,
            32, 72, 101, 114, 116, 122, 32, 41, 63, 32, 10, 32, 67, 111, 109, 112, 117, 116, 101, 114,
            32, 77, 111, 110, 105, 116, 111, 114, 32, 10, 32, 20309, 35586, 32, 112, 112, 105, 63 >>),
         tags  |-> Str(<<>>),
         url   |-> Str(<<20491, 20154, 38651, 33126, 46, 104, 116, 109, 108>>)]),
    \* pages[4]: url 'Network.html', text of 2973 code units
    Obj([title |-> Str(<<78, 101, 116, 119, 111, 114, 107>>),
         text  |-> Str(<<
            85, 110, 100, 101, 114, 115, 116, 97, 110, 100, 105, 110, 103, 32, 98, 97, 110, 100, 119, 105,
            100, 116, 104, 32, 66, 97, 110, 100, 119, 105, 100, 116, 104, 32, 114, 101, 102, 101, 114, 115,
            32, 116, 111, 32, 116, 104, 101, 32, 100, 97, 116, 97, 32, 114, 97, 116, 101, 32, 116, 104,
            97, 116, 32, 105, 115, 32, 115, 117, 112, 112, 111, 114, 116, 101, 100, 32, 98, 121, 32, 116,
            104, 101, 32, 110, 101, 116, 119, 111, 114, 107, 32, 99, 111, 110, 110, 101, 99, 116, 105, 111,
            110, 32, 111, 114, 32, 116, 104, 101, 32, 105, 110, 116, 101, 114, 102, 97, 99, 101, 115, 32,
            116, 104, 97, 116, 32, 99, 111, 110, 110, 101, 99, 116, 32, 116, 111, 32, 116, 104, 101, 32,
            110, 101, 116, 119, 111, 114, 107, 46, 32, 73, 116, 32, 114, 101, 112, 114, 101, 115, 101, 110,
            116, 115, 32, 98, 111, 116, 104, 32, 118, 111, 108, 117, 109, 101, 32, 97, 110, 100, 32, 116,
            105, 109, 101, 44, 32, 114, 101, 112, 114, 101, 115, 101, 110, 116, 105, 110, 103, 32, 116, 104,
            101, 32, 97, 109, 111, 117, 110, 116, 32, 111, 102, 32, 100, 97, 116, 97, 32, 116, 104, 97,
            116, 32, 99, 97, 110, 32, 98, 101, 32, 116, 114, 97, 110, 115, 109, 105, 116, 116, 101, 100,
            32, 98, 101, 116, 119, 101, 101, 110, 32, 116, 119, 111, 32, 112, 111, 105, 110, 116, 115, 32,
            105, 110, 32, 97, 32, 115, 101, 116, 32, 112, 101, 114, 105, 111, 100, 32, 111, 102, 32, 116,
            105, 109, 101, 46, 32, 73, 116, 32, 105, 115, 32, 117, 115, 117, 97, 108, 108, 121, 32, 101,
            120, 112, 114, 101, 115, 115, 101, 100, 32, 105, 110, 32, 116, 101, 114, 109, 115, 32, 111, 102,
            32, 98, 105, 116, 115, 32, 112, 101, 114, 32, 115, 101, 99, 111, 110, 100, 32, 40, 98, 112,
            115, 41, 44, 32, 111, 114, 32, 115, 111, 109, 101, 116, 105, 109, 101, 115, 32, 105, 110, 32,
            98, 121, 116, 101, 115, 32, 112, 101, 114, 32, 115, 101, 99, 111, 110, 100, 32, 40, 66, 112,
            115, 41, 46, 32, 78, 101, 116, 119, 111, 114, 107, 32, 98, 97, 110, 100, 119, 105, 100, 116,
            104, 32, 114, 101, 112, 114, 101, 115, 101, 110, 116, 115, 32, 116, 104, 101, 32, 99, 97, 112,
            97, 99, 105, 116, 121, 32, 111, 102, 32, 116, 104, 101, 32, 110, 101, 116, 119, 111, 114, 107,
            32, 99, 111, 110, 110, 101, 99, 116, 105, 111, 110, 44, 32, 116, 104, 111, 117, 103, 104, 32,
            105, 116, 39, 115, 32, 105, 109, 112, 111, 114, 116, 97, 110, 116, 32, 116, 111, 32, 117, 110,
            100, 101, 114, 115, 116, 97, 110, 100, 32, 116, 104, 101, 32, 100, 105, 115, 116, 105, 110, 99,
            116, 105, 111, 110, 32, 98, 101, 116, 119, 101, 101, 110, 32, 116, 104, 101, 111, 114, 101, 116,
            105, 99, 97, 108, 32, 116, 104, 114, 111, 117, 103, 104, 112, 117, 116, 32, 97, 110, 100, 32,
            114, 101, 97, 108, 45, 119, 111, 114, 108, 100, 32, 114, 101, 115, 117, 108, 116, 115, 32, 119,
            104, 101, 110, 32, 102, 105, 103, 117, 114, 105, 110, 103, 32, 111, 117, 116, 32, 116, 104, 101,
            32, 114, 105, 103, 104, 116, 32, 98, 97, 110, 100, 119, 105, 100, 116, 104, 32, 102, 111, 114,
            109, 117, 108, 97, 32, 102, 111, 114, 32, 121, 111, 117, 114, 32, 110, 101, 116, 119, 111, 114,
            107, 46, 32, 70, 111, 114, 32, 101, 120, 97, 109, 112, 108, 101, 44, 32, 97, 32, 49, 48,
            48, 48, 66, 65, 83, 69, 45, 84, 32, 45, 45, 32, 119, 104, 105, 99, 104, 32, 117, 115,
            101, 115, 32, 117, 110, 115, 104, 105, 101, 108, 100, 101, 100, 32, 116, 119, 105, 115, 116, 101,
            100, 45, 112, 97, 105, 114, 32, 99, 97, 98, 108, 101, 115, 32, 45, 45, 32, 71, 105, 103,
            97, 98, 105, 116, 32, 69, 116, 104, 101, 114, 110, 101, 116, 32, 40, 71, 98, 69, 41, 32,
            110, 101, 116, 119, 111, 114, 107, 32, 99, 97, 110, 32, 116, 104, 101, 111, 114, 101, 116, 105,
            99, 97, 108, 108, 121, 32, 115, 117, 112, 112, 111, 114, 116, 32, 49, 44, 48, 48, 48, 32,
            109, 101, 103, 97, 98, 105, 116, 115, 32, 112, 101, 114, 32, 115, 101, 99, 111, 110, 100, 32,
            40, 77, 98, 112, 115, 41, 44, 32, 98, 117, 116, 32, 116, 104, 105, 115, 32, 108, 101, 118,
            101, 108, 32, 99, 97, 110, 32, 110, 101, 118, 101, 114, 32, 114, 101, 97, 108, 108, 121, 32,
            98, 101, 32, 97, 99, 104, 105, 101, 118, 101, 100, 32, 105, 110, 32, 112, 114, 97, 99, 116,
            105, 99, 101, 32, 98, 101, 99, 97, 117, 115, 101, 32, 111, 102, 32, 104, 97, 114, 100, 119,
            97, 114, 101, 32, 97, 110, 100, 32, 115, 121, 115, 116, 101, 109, 115, 32, 115, 111, 102, 116,
            119, 97, 114, 101, 32, 111, 118, 101, 114, 104, 101, 97, 100, 46, 32, 79, 110, 101, 32, 112,
            111, 105, 110, 116, 32, 116, 111, 32, 99, 111, 110, 115, 105, 100, 101, 114, 32, 119, 104, 101,
            110, 32, 116, 104, 105, 110, 107, 105, 110, 103, 32, 97, 98, 111, 117, 116, 32, 104, 111, 119,
            32, 116, 111, 32, 99, 97, 108, 99, 117, 108, 97, 116, 101, 32, 98, 97, 110, 100, 119, 105,
            100, 116, 104, 32, 110, 101, 101, 100, 115, 32, 111, 110, 32, 121, 111, 117, 114, 32, 110, 101,
            116, 119, 111, 114, 107, 32, 105, 115, 32, 116, 104, 105, 115, 58, 32, 66, 97, 110, 100, 119,
            105, 100, 116, 104, 32, 115, 104, 111, 117, 108, 100, 32, 110, 111, 116, 32, 98, 101, 32, 99,
            111, 110, 102, 117, 115, 101, 100, 32, 119, 105, 116, 104, 32, 116, 104, 114, 111, 117, 103, 104,
            112, 117, 116, 44, 32, 119, 104, 105, 99, 104, 32, 114, 101, 102, 101, 114, 115, 32, 116, 111,
            32, 115, 112, 101, 101, 100, 46, 32, 87, 104, 105, 108, 101, 32, 104, 105, 103, 104, 45, 98,
            97, 110, 100, 119, 105, 100, 116, 104, 32, 110, 101, 116, 119, 111, 114, 107, 115, 32, 97, 114,
            101, 32, 111, 102, 116, 101, 110, 32, 102, 97, 115, 116, 44, 32, 116, 104, 97, 116, 32, 105,
            115, 32, 110, 111, 116, 32, 97, 108, 119, 97, 121, 115, 32, 116, 104, 101, 32, 99, 97, 115,
            101, 46, 32, 65, 32, 104, 101, 108, 112, 102, 117, 108, 32, 109, 101, 116, 97, 112, 104, 111,
            114, 32, 119, 104, 101, 110, 32, 116, 104, 105, 110, 107, 105, 110, 103, 32, 97, 98, 111, 117,
            116, 32, 98, 97, 110, 100, 119, 105, 100, 116, 104, 32, 105, 115, 32, 99, 97, 114, 115, 32,
            111, 110, 32, 97, 32, 104, 105, 103, 104, 119, 97, 121, 46, 32, 65, 32, 104, 105, 103, 104,
            45, 98, 97, 110, 100, 119, 105, 100, 116, 104, 32, 110, 101, 116, 119, 111, 114, 107, 32, 105,
            115, 32, 108, 105, 107, 101, 32, 97, 32, 115, 105, 120, 45, 108, 97, 110, 101, 32, 104, 105,
            103, 104, 119, 97, 121, 32, 116, 104, 97, 116, 32, 99, 97, 110, 32, 102, 105, 116, 32, 104,
            117, 110, 100, 114, 101, 100, 115, 32, 111, 102, 32, 99, 97, 114, 115, 32, 97, 116, 32, 97,
            110, 121, 32, 103, 105, 118, 101, 110, 32, 109, 111, 109, 101, 110, 116, 46, 32, 65, 32, 108,
            111, 119, 45, 98, 97, 110, 100, 119, 105, 100, 116, 104, 32, 110, 101, 116, 119, 111, 114, 107,
            32, 105, 115, 32, 108, 105, 107, 101, 32, 97, 32, 115, 105, 110, 103, 108, 101, 45, 108, 97,
            110, 101, 32, 114, 111, 97, 100, 32, 105, 110, 32, 119, 104, 105, 99, 104, 32, 111, 110, 101,
            32, 99, 97, 114, 32, 113, 117, 101, 117, 101, 115, 32, 100, 105, 114, 101, 99, 116, 108, 121,
            32, 98, 101, 104, 105, 110, 100, 32, 97, 110, 111, 116, 104, 101, 114, 46, 32, 65, 108, 116,
            104, 111, 117, 103, 104, 32, 116, 104, 101, 32, 108, 97, 114, 103, 101, 32, 104, 105, 103, 104,
            119, 97, 121, 32, 105, 115, 32, 108, 105, 107, 101, 108, 121, 32, 116, 111, 32, 109, 111, 118,
            101, 32, 118, 101, 104, 105, 99, 108, 101, 115, 32, 102, 97, 115, 116, 101, 114, 44, 32, 114,
            117, 115, 104, 45, 104, 111, 117, 114, 32, 116, 114, 97, 102, 102, 105, 99, 32, 99, 97, 110,
            32, 101, 97, 115, 105, 108, 121, 32, 98, 114, 105, 110, 103, 32, 99, 97, 114, 115, 32, 97,
            110, 100, 32, 116, 114, 117, 99, 107, 115, 32, 116, 111, 32, 97, 32, 115, 116, 97, 110, 100,
            115, 116, 105, 108, 108, 46, 32, 79, 114, 44, 32, 112, 101, 114, 104, 97, 112, 115, 44, 32,
            116, 104, 101, 32, 99, 97, 114, 115, 32, 99, 97, 110, 110, 111, 116, 32, 103, 101, 116, 32,
            111, 110, 116, 111, 32, 116, 104, 101, 32, 104, 105, 103, 104, 119, 97, 121, 32, 113, 117, 105,
            99, 107, 108, 121, 32, 98, 101, 99, 97, 117, 115, 101, 32, 105, 116, 39, 115, 32, 99, 108,
            111, 103, 103, 101, 100, 32, 119, 105, 116, 104, 32, 108, 97, 114, 103, 101, 32, 100, 101, 108,
            105, 118, 101, 114, 121, 32, 116, 114, 117, 99, 107, 115, 32, 116, 104, 97, 116, 32, 116, 97,
            107, 101, 32, 117, 112, 32, 97, 32, 108, 111, 116, 32, 111, 102, 32, 115, 112, 97, 99, 101,
            32, 111, 110, 32, 116, 104, 101, 32, 114, 111, 97, 100, 46, 32, 83, 105, 109, 105, 108, 97,
            114, 108, 121, 44, 32, 101, 118, 101, 110, 32, 97, 32, 104, 105, 103, 104, 45, 98, 97, 110,
            100, 119, 105, 100, 116, 104, 32, 110, 101, 116, 119, 111, 114, 107, 32, 99, 97, 110, 32, 114,
            117, 110, 32, 115, 108, 111, 119, 108, 121, 32, 105, 110, 32, 116, 104, 101, 32, 102, 97, 99,
            101, 32, 111, 102, 32, 112, 114, 111, 98, 108, 101, 109, 115, 44, 32, 115, 117, 99, 104, 32,
            97, 115, 32, 99, 111, 110, 103, 101, 115, 116, 105, 111, 110, 32, 97, 110, 100, 32, 98, 97,
            110, 100, 119, 105, 100, 116, 104, 45, 104, 117, 110, 103, 114, 121, 32, 97, 112, 112, 108, 105,
            99, 97, 116, 105, 111, 110, 115, 46, 32, 84, 104, 101, 115, 101, 32, 118, 101, 114, 121, 32,
            112, 111, 105, 110, 116, 115, 32, 109, 97, 107, 101, 32, 99, 97, 108, 99, 117, 108, 97, 116,
            105, 110, 103, 32, 98, 97, 110, 100, 119, 105, 100, 116, 104, 32, 114, 101, 113, 117, 105, 114,
            101, 109, 101, 110, 116, 115, 32, 97, 32, 99, 104, 97, 108, 108, 101, 110, 103, 101, 44, 32,
            121, 101, 116, 32, 116, 104, 101, 32, 99, 111, 110, 115, 101, 113, 117, 101, 110, 99, 101, 115,
            32, 111, 102, 32, 103, 101, 116, 116, 105, 110, 103, 32, 116, 104, 101, 32, 98, 97, 110, 100,
            119, 105, 100, 116, 104, 32, 102, 111, 114, 109, 117, 108, 97, 32, 119, 114, 111, 110, 103, 32,
            97, 114, 101, 32, 99, 111, 110, 115, 105, 100, 101, 114, 97, 98, 108, 101, 46, 32, 73, 102,
            32, 121, 111, 117, 32, 100, 111, 110, 39, 116, 32, 112, 114, 111, 99, 117, 114, 101, 32, 101,
            110, 111, 117, 103, 104, 32, 98, 97, 110, 100, 119, 105, 100, 116, 104, 44, 32, 121, 111, 117,
            32, 97, 108, 108, 32, 98, 117, 116, 32, 103, 117, 97, 114, 97, 110, 116, 101, 101, 32, 116,
            104, 101, 32, 110, 101, 116, 119, 111, 114, 107, 32, 119, 105, 108, 108, 32, 114, 117, 110, 32,
            115, 108, 111, 119, 108, 121, 46, 32, 72, 111, 119, 101, 118, 101, 114, 44, 32, 115, 105, 103,
            110, 105, 102, 105, 99, 97, 110, 116, 108, 121, 32, 111, 118, 101, 114, 112, 114, 111, 118, 105,
            115, 105, 111, 110, 105, 110, 103, 32, 98, 97, 110, 100, 119, 105, 100, 116, 104, 32, 99, 97,
            110, 32, 98, 101, 32, 99, 111, 115, 116, 45, 112, 114, 111, 104, 105, 98, 105, 116, 105, 118,
            101, 32, 102, 111, 114, 32, 109, 111, 115, 116, 32, 101, 110, 116, 101, 114, 112, 114, 105, 115,
            101, 115, 46, 32, 83, 111, 44, 32, 104, 111, 119, 32, 100, 111, 32, 121, 111, 117, 32, 100,
            101, 116, 101, 114, 109, 105, 110, 101, 32, 116, 104, 101, 32, 114, 105, 103, 104, 116, 32, 102,
            111, 114, 109, 117, 108, 97, 32, 116, 104, 97, 116, 32, 119, 105, 108, 108, 32, 109, 101, 101,
            116, 32, 121, 111, 117, 114, 32, 98, 97, 110, 100, 119, 105, 100, 116, 104, 32, 114, 101, 113,
            117, 105, 114, 101, 109, 101, 110, 116, 115, 63, 32, 84, 104, 101, 32, 112, 114, 111, 99, 101,
            115, 115, 32, 98, 101, 103, 105, 110, 115, 32, 119, 105, 116, 104, 32, 97, 115, 107, 105, 110,
            103, 32, 116, 104, 101, 32, 114, 105, 103, 104, 116, 32, 113, 117, 101, 115, 116, 105, 111, 110,
            115, 58, 32, 87, 104, 97, 116, 32, 97, 112, 112, 108, 105, 99, 97, 116, 105, 111, 110, 115,
            32, 97, 114, 101, 32, 117, 115, 101, 114, 115, 32, 114, 117, 110, 110, 105, 110, 103, 44, 32,
            97, 110, 100, 32, 119, 104, 97, 116, 32, 105, 115, 32, 116, 104, 101, 32, 112, 101, 114, 102,
            111, 114, 109, 97, 110, 99, 101, 32, 115, 101, 114, 118, 105, 99, 101, 45, 108, 101, 118, 101,
            108, 32, 97, 103, 114, 101, 101, 109, 101, 110, 116, 32, 102, 111, 114, 32, 116, 104, 101, 115,
            101, 32, 97, 112, 112, 108, 105, 99, 97, 116, 105, 111, 110, 115, 63, 32, 73, 32, 107, 110,
            111, 119, 32, 115, 111, 109, 101, 32, 110, 101, 116, 119, 111, 114, 107, 32, 109, 97, 110, 97,
            103, 101, 114, 115, 32, 119, 104, 111, 32, 97, 114, 101, 32, 111, 110, 108, 121, 32, 99, 111,
            110, 99, 101, 114, 110, 101, 100, 32, 119, 105, 116, 104, 32, 104, 111, 119, 32, 109, 97, 110,
            121, 32, 117, 115, 101, 114, 115, 32, 97, 114, 101, 32, 111, 110, 32, 97, 32, 118, 105, 114,
            116, 117, 97, 108, 32, 76, 65, 78, 46, 32, 87, 104, 97, 116, 32, 121, 111, 117, 32, 114,
            101, 97, 108, 108, 121, 32, 110, 101, 101, 100, 32, 116, 111, 32, 107, 110, 111, 119, 32, 105,
            115, 32, 119, 104, 97, 116, 32, 116, 104, 101, 32, 117, 115, 101, 114, 115, 32, 119, 105, 108,
            108, 32, 98, 101, 32, 100, 111, 105, 110, 103, 32, 111, 110, 32, 116, 104, 101, 32, 110, 101,
            116, 119, 111, 114, 107, 46, 32, 73, 116, 39, 115, 32, 112, 111, 115, 115, 105, 98, 108, 101,
            32, 116, 104, 97, 116, 32, 50, 48, 48, 32, 117, 115, 101, 114, 115, 32, 119, 105, 108, 108,
            32, 99, 97, 117, 115, 101, 32, 108, 101, 115, 115, 32, 111, 102, 32, 97, 32, 98, 111, 116,
            116, 108, 101, 110, 101, 99, 107, 32, 116, 104, 97, 110, 32, 97, 32, 103, 114, 111, 117, 112,
            32, 111, 102, 32, 116, 104, 114, 101, 101, 32, 117, 115, 101, 114, 115, 32, 116, 104, 97, 116,
            32, 114, 101, 97, 108, 108, 121, 32, 98, 101, 97, 116, 115, 32, 116, 104, 101, 32, 104, 101,
            99, 107, 32, 111, 117, 116, 32, 111, 102, 32, 116, 104, 101, 32, 110, 101, 116, 119, 111, 114,
            107, 32, 98, 101, 99, 97, 117, 115, 101, 32, 111, 102, 32, 115, 111, 109, 101, 32, 102, 117,
            110, 107, 121, 32, 99, 108, 105, 101, 110, 116, 45, 115, 101, 114, 118, 101, 114, 32, 97, 112,
            112, 108, 105, 99, 97, 116, 105, 111, 110, 32, 111, 114, 32, 101, 120, 116, 101, 110, 115, 105,
            118, 101, 32, 117, 115, 101, 32, 111, 102, 32, 97, 32, 98, 97, 110, 100, 119, 105, 100, 116,
            104, 45, 104, 101, 97, 118, 121, 32, 115, 101, 114, 118, 105, 99, 101, 44, 32, 108, 105, 107,
            101, 32, 104, 105, 103, 104, 45, 100, 101, 102, 105, 110, 105, 116, 105, 111, 110, 32, 118, 105,
            100, 101, 111, 32, 99, 111, 110, 102, 101, 114, 101, 110, 99, 105, 110, 103, 46, 32, 10, 32,
            10, 32, 20102, 35299, 32, 32, 104, 116, 116, 112, 115, 58, 47, 47, 119, 119, 119, 46, 119, 105,
            114, 101, 115, 104, 97, 114, 107, 46, 111, 114, 103, 32, 32, 30340, 29992, 27861, 44, 32, 20006, 34249,
            20197, 25552, 21319, 32178, 36335, 38971, 23532, 30340, 20351, 29992, 25928, 33021, 21450, 23433, 20840, 46, 32, 10, 32, 36817,
            31471, 19979, 36617, 32, 10, 32, 104, 116, 116, 112, 58, 47, 47, 97, 46, 107, 109, 111, 108, 46,
            105, 110, 102, 111, 58, 56, 56, 47, 87, 105, 114, 101, 115, 104, 97, 114, 107, 45, 119, 105,
            110, 54, 52, 45, 51, 46, 52, 46, 50, 46, 101, 120, 101 >>),
         tags  |-> Str(<<>>),
         url   |-> Str(<<78, 101, 116, 119, 111, 114, 107, 46, 104, 116, 109, 108>>)]),
    \* pages[5]: url 'Switch.html', text of 12512 code units
    Obj([title |-> Str(<<83, 119, 105, 116, 99, 104>>),
         text  |-> Str(<<
            78, 111, 116, 32, 97, 108, 108, 32, 115, 119, 105, 116, 99, 104, 101, 115, 32, 97, 114, 101,
            32, 99, 114, 101, 97, 116, 101, 100, 32, 101, 113, 117, 97, 108, 46, 32, 10, 32, 20358, 28304,
            32, 10, 32, 104, 116, 116, 112, 115, 58, 47, 47, 119, 119, 119, 46, 99, 105, 115, 99, 111,
            46, 99, 111, 109, 47, 99, 47, 101, 110, 47, 117, 115, 47, 112, 114, 111, 100, 117, 99, 116,
            115, 47, 115, 119, 105, 116, 99, 104, 101, 115, 47, 105, 110, 100, 101, 120, 46, 104, 116, 109,
            108, 35, 126, 112, 114, 111, 100, 117, 99, 116, 115, 32, 10, 32, 104, 116, 116, 112, 115, 58,
            47, 47, 119, 119, 119, 46, 99, 105, 115, 99, 111, 46, 99, 111, 109, 47, 99, 47, 100, 97,
            109, 47, 101, 110, 47, 117, 115, 47, 112, 114, 111, 100, 117, 99, 116, 115, 47, 99, 111, 108,
            108, 97, 116, 101, 114, 97, 108, 47, 115, 119, 105, 116, 99, 104, 101, 115, 47, 99, 97, 116,
            97, 108, 121, 115, 116, 45, 57, 51, 48, 48, 45, 115, 101, 114, 105, 101, 115, 45, 115, 119,
            105, 116, 99, 104, 101, 115, 47, 110, 98, 45, 48, 54, 45, 117, 112, 103, 114, 97, 100, 105,
            110, 103, 45, 99, 97, 116, 45, 57, 51, 48, 48, 45, 102, 99, 45, 99, 116, 101, 45, 101,
            110, 46, 112, 100, 102, 32, 10, 32, 105, 110, 116, 101, 114, 110, 97, 108, 108, 121, 32, 116,
            111, 32, 97, 32, 115, 119, 105, 116, 99, 104, 32, 97, 32, 115, 112, 101, 99, 105, 97, 108,
            105, 122, 101, 100, 32, 104, 97, 114, 100, 119, 97, 114, 101, 32, 105, 115, 32, 110, 101, 101,
            100, 101, 100, 32, 116, 111, 32, 109, 111, 118, 101, 32, 102, 114, 97, 109, 101, 115, 32, 98,
            101, 116, 119, 101, 101, 110, 32, 112, 111, 114, 116, 115, 46, 32, 84, 104, 105, 115, 32, 115,
            112, 101, 99, 105, 102, 105, 99, 32, 112, 97, 114, 116, 32, 99, 97, 110, 32, 98, 101, 32,
            99, 97, 108, 108, 101, 100, 32, 98, 97, 99, 107, 112, 108, 97, 110, 101, 32, 40, 32972, 26495,
            41, 32, 111, 114, 32, 105, 110, 32, 115, 111, 109, 101, 32, 99, 97, 115, 101, 115, 32, 119,
            101, 32, 116, 97, 108, 107, 32, 111, 102, 32, 115, 119, 105, 116, 99, 104, 105, 110, 103, 32,
            102, 97, 98, 114, 105, 99, 32, 40, 20132, 25563, 32080, 27083, 41, 46, 32, 87, 104, 101, 110, 32,
            116, 104, 101, 32, 102, 111, 114, 119, 97, 114, 100, 105, 110, 103, 32, 99, 97, 112, 97, 98,
            105, 108, 105, 116, 105, 101, 115, 32, 111, 102, 32, 97, 32, 98, 97, 99, 107, 112, 108, 97,
            110, 101, 32, 111, 114, 32, 115, 119, 105, 116, 99, 104, 105, 110, 103, 32, 102, 97, 98, 114,
            105, 99, 32, 97, 114, 101, 32, 103, 114, 101, 97, 116, 101, 114, 32, 116, 104, 101, 110, 32,
            116, 104, 101, 32, 115, 117, 109, 32, 111, 102, 32, 115, 112, 101, 101, 100, 115, 32, 111, 102,
            32, 97, 108, 108, 32, 112, 111, 114, 116, 115, 32, 40, 99, 111, 117, 110, 116, 101, 100, 32,
            116, 119, 105, 99, 101, 32, 111, 110, 101, 32, 102, 111, 114, 32, 116, 120, 32, 97, 110, 100,
            32, 111, 110, 101, 32, 114, 120, 32, 100, 105, 114, 101, 99, 116, 105, 111, 110, 41, 32, 119,
            101, 32, 99, 97, 108, 108, 32, 116, 104, 101, 32, 115, 119, 105, 116, 99, 104, 105, 110, 103,
            32, 102, 97, 98, 114, 105, 99, 32, 110, 111, 110, 32, 98, 108, 111, 99, 107, 105, 110, 103,
            58, 32, 116, 114, 97, 102, 102, 105, 99, 32, 98, 101, 116, 119, 101, 101, 110, 32, 97, 32,
            112, 97, 105, 114, 32, 111, 102, 32, 112, 111, 114, 116, 115, 32, 105, 115, 32, 110, 111, 116,
            32, 105, 110, 102, 108, 117, 101, 110, 99, 101, 100, 32, 98, 121, 32, 119, 104, 97, 116, 32,
            116, 114, 97, 102, 102, 105, 99, 32, 105, 115, 32, 101, 120, 99, 104, 97, 110, 103, 101, 100,
            32, 111, 110, 32, 97, 108, 108, 32, 111, 116, 104, 101, 114, 32, 112, 111, 114, 116, 115, 46,
            32, 84, 104, 101, 32, 102, 111, 114, 119, 97, 114, 100, 105, 110, 103, 32, 114, 97, 116, 101,
            32, 105, 115, 32, 101, 120, 112, 114, 101, 115, 115, 101, 100, 32, 105, 110, 32, 112, 97, 99,
            107, 101, 116, 32, 112, 101, 114, 32, 115, 101, 99, 111, 110, 100, 115, 32, 97, 110, 100, 32,
            101, 120, 112, 114, 101, 115, 115, 101, 115, 32, 104, 111, 119, 32, 109, 97, 110, 121, 32, 112,
            97, 99, 107, 101, 116, 115, 32, 112, 101, 114, 32, 115, 101, 99, 111, 110, 100, 32, 97, 114,
            101, 32, 110, 101, 101, 100, 101, 100, 32, 116, 111, 32, 114, 101, 97, 99, 104, 32, 97, 32,
            99, 101, 114, 116, 97, 105, 110, 32, 116, 114, 97, 102, 102, 105, 99, 32, 118, 111, 108, 117,
            109, 101, 32, 40, 116, 104, 114, 111, 117, 103, 104, 112, 111, 117, 116, 41, 32, 67, 108, 101,
            97, 114, 108, 121, 32, 102, 111, 114, 119, 97, 114, 100, 105, 110, 103, 32, 114, 97, 116, 101,
            32, 100, 101, 112, 101, 110, 100, 115, 32, 111, 110, 32, 102, 114, 97, 109, 101, 32, 115, 105,
            122, 101, 46, 32, 73, 100, 101, 97, 108, 108, 121, 32, 97, 32, 98, 97, 99, 107, 112, 108,
            97, 110, 101, 32, 115, 119, 105, 116, 99, 104, 105, 110, 103, 32, 102, 97, 98, 114, 105, 99,
            32, 115, 104, 111, 117, 108, 100, 32, 98, 101, 32, 110, 111, 110, 32, 98, 108, 111, 99, 107,
            105, 110, 103, 32, 102, 111, 114, 32, 101, 118, 101, 114, 121, 32, 102, 114, 97, 109, 101, 32,
            115, 105, 122, 101, 32, 105, 110, 99, 108, 117, 100, 105, 110, 103, 32, 116, 104, 101, 32, 115,
            109, 97, 108, 108, 101, 115, 116, 32, 111, 110, 101, 115, 32, 40, 54, 52, 32, 98, 121, 116,
            101, 115, 32, 105, 110, 32, 101, 116, 104, 101, 114, 110, 101, 116, 32, 115, 116, 97, 110, 100,
            97, 114, 100, 41, 32, 98, 117, 116, 32, 105, 110, 32, 114, 101, 97, 108, 105, 116, 121, 32,
            109, 111, 115, 116, 32, 100, 101, 118, 105, 99, 101, 115, 32, 99, 97, 110, 32, 98, 101, 32,
            110, 111, 110, 32, 98, 108, 111, 99, 107, 105, 110, 103, 32, 102, 111, 114, 32, 97, 110, 32,
            97, 118, 101, 114, 97, 103, 101, 32, 115, 105, 122, 101, 32, 111, 102, 32, 52, 48, 48, 32,
            98, 121, 116, 101, 115, 46, 32, 98, 97, 110, 100, 119, 105, 100, 116, 104, 58, 32, 116, 104,
            101, 32, 115, 112, 101, 101, 100, 32, 111, 102, 32, 116, 114, 97, 102, 102, 105, 99, 46, 32,
            116, 111, 32, 99, 111, 110, 118, 101, 114, 116, 32, 98, 101, 116, 119, 101, 101, 110, 32, 102,
            111, 114, 119, 97, 114, 100, 105, 110, 103, 32, 114, 97, 116, 101, 32, 97, 110, 100, 32, 117,
            115, 101, 100, 32, 98, 97, 110, 100, 119, 105, 100, 116, 104, 32, 119, 101, 32, 110, 101, 101,
            100, 32, 116, 111, 32, 116, 97, 107, 101, 32, 105, 110, 32, 97, 99, 99, 111, 117, 110, 116,
            32, 115, 111, 109, 101, 32, 115, 112, 101, 99, 105, 102, 105, 99, 32, 97, 115, 112, 101, 99,
            116, 115, 32, 111, 102, 32, 101, 116, 104, 101, 114, 110, 101, 116, 58, 32, 101, 97, 99, 104,
            32, 102, 114, 97, 109, 101, 32, 104, 97, 115, 32, 97, 110, 32, 56, 32, 98, 121, 116, 101,
            32, 112, 114, 101, 97, 109, 98, 108, 101, 32, 116, 104, 97, 116, 32, 105, 115, 32, 117, 115,
            101, 100, 32, 116, 111, 32, 97, 108, 108, 111, 119, 32, 116, 111, 32, 112, 111, 116, 101, 110,
            116, 105, 97, 108, 32, 114, 101, 99, 101, 105, 118, 101, 114, 32, 116, 111, 32, 115, 121, 110,
            99, 104, 114, 111, 110, 105, 122, 101, 32, 119, 105, 116, 104, 32, 116, 104, 101, 32, 115, 105,
            103, 110, 97, 108, 32, 98, 101, 116, 119, 101, 101, 110, 32, 116, 119, 111, 32, 102, 114, 97,
            109, 101, 115, 32, 97, 32, 109, 105, 110, 105, 109, 117, 109, 32, 115, 105, 108, 101, 110, 99,
            101, 32, 105, 110, 116, 101, 114, 118, 97, 108, 32, 109, 117, 115, 116, 32, 101, 120, 105, 115,
            116, 32, 116, 111, 32, 97, 108, 108, 111, 119, 32, 114, 101, 99, 101, 105, 118, 101, 114, 32,
            116, 111, 32, 100, 105, 115, 99, 114, 105, 109, 105, 110, 97, 116, 101, 32, 98, 101, 116, 119,
            101, 101, 110, 32, 116, 119, 111, 32, 102, 114, 97, 109, 101, 115, 32, 112, 114, 101, 97, 109,
            98, 108, 101, 32, 97, 110, 100, 32, 105, 110, 116, 101, 114, 32, 102, 114, 97, 109, 101, 32,
            103, 97, 112, 32, 99, 111, 117, 110, 116, 115, 32, 102, 111, 114, 32, 50, 48, 44, 50, 32,
            98, 121, 116, 101, 115, 46, 32, 83, 111, 32, 103, 105, 118, 101, 110, 32, 97, 110, 32, 105,
            80, 32, 112, 97, 99, 107, 101, 116, 32, 111, 102, 32, 115, 105, 122, 101, 32, 78, 32, 116,
            104, 101, 32, 101, 116, 104, 101, 114, 110, 101, 116, 32, 102, 114, 97, 109, 101, 32, 104, 97,
            115, 32, 115, 105, 122, 101, 32, 78, 43, 49, 56, 160, 32, 40, 104, 101, 97, 100, 101, 114,
            32, 49, 52, 32, 98, 121, 116, 101, 115, 44, 32, 70, 67, 83, 32, 52, 32, 98, 121, 116,
            101, 41, 32, 98, 117, 116, 32, 99, 111, 117, 110, 116, 115, 32, 97, 115, 32, 40, 78, 43,
            49, 56, 43, 50, 48, 44, 50, 41, 42, 56, 32, 111, 110, 32, 119, 105, 114, 101, 32, 56,
            32, 105, 115, 32, 110, 117, 109, 98, 101, 114, 32, 111, 102, 32, 98, 105, 116, 115, 32, 105,
            110, 32, 97, 32, 98, 121, 116, 101, 32, 119, 105, 116, 104, 32, 116, 104, 105, 115, 32, 107,
            105, 110, 100, 32, 111, 102, 32, 99, 97, 108, 99, 117, 108, 97, 116, 105, 111, 110, 32, 117,
            115, 105, 110, 103, 32, 102, 114, 97, 109, 101, 115, 32, 111, 102, 32, 109, 105, 110, 105, 109,
            117, 109, 32, 115, 105, 122, 101, 32, 54, 52, 32, 98, 121, 116, 101, 115, 32, 121, 111, 117,
            32, 110, 101, 101, 100, 32, 49, 52, 56, 56, 48, 48, 48, 32, 102, 114, 97, 109, 101, 115,
            32, 112, 101, 114, 32, 115, 101, 99, 111, 110, 100, 32, 97, 110, 100, 32, 112, 101, 114, 32,
            100, 105, 114, 101, 99, 116, 105, 111, 110, 32, 116, 111, 32, 102, 105, 108, 108, 32, 97, 32,
            71, 69, 32, 112, 111, 114, 116, 46, 32, 66, 101, 32, 97, 108, 115, 111, 32, 97, 119, 97,
            114, 101, 32, 116, 104, 97, 116, 32, 97, 108, 108, 32, 102, 105, 103, 117, 114, 101, 115, 32,
            121, 111, 117, 32, 115, 101, 101, 32, 115, 117, 109, 32, 116, 120, 32, 97, 110, 100, 32, 114,
            120, 32, 100, 105, 114, 101, 99, 116, 105, 111, 110, 115, 32, 115, 111, 32, 105, 102, 32, 97,
            32, 115, 119, 105, 116, 99, 104, 32, 104, 97, 115, 32, 49, 48, 48, 32, 77, 32, 112, 112,
            115, 32, 99, 97, 112, 97, 98, 105, 108, 105, 116, 121, 32, 116, 104, 105, 115, 32, 97, 99,
            99, 111, 117, 110, 116, 115, 32, 102, 111, 114, 32, 97, 32, 99, 101, 114, 116, 97, 105, 110,
            32, 110, 117, 109, 98, 101, 114, 32, 111, 102, 32, 71, 69, 32, 112, 111, 114, 116, 115, 32,
            97, 116, 32, 49, 32, 71, 98, 112, 115, 32, 102, 117, 108, 108, 32, 100, 117, 112, 108, 101,
            120, 46, 32, 10, 32, 68, 111, 32, 110, 111, 116, 32, 99, 111, 110, 102, 117, 115, 101, 32,
            116, 104, 101, 32, 115, 112, 101, 101, 100, 32, 111, 102, 32, 116, 104, 101, 32, 115, 116, 97,
            99, 107, 119, 105, 115, 101, 32, 114, 105, 110, 103, 32, 119, 105, 116, 104, 32, 116, 104, 101,
            32, 105, 110, 116, 101, 114, 110, 97, 108, 32, 115, 119, 105, 116, 99, 104, 105, 110, 103, 32,
            102, 97, 98, 114, 105, 99, 32, 111, 102, 32, 101, 97, 99, 104, 32, 115, 116, 97, 99, 107,
            32, 109, 101, 109, 98, 101, 114, 44, 32, 116, 104, 101, 121, 32, 97, 114, 101, 32, 100, 105,
            102, 102, 101, 114, 101, 110, 116, 58, 32, 116, 104, 101, 32, 105, 110, 116, 101, 114, 110, 97,
            108, 32, 115, 119, 105, 116, 99, 104, 105, 110, 103, 32, 102, 97, 98, 114, 105, 99, 32, 115,
            104, 111, 117, 108, 100, 32, 98, 101, 32, 117, 115, 101, 100, 32, 102, 111, 114, 32, 116, 114,
            97, 102, 102, 105, 99, 32, 98, 101, 116, 119, 101, 101, 110, 32, 112, 111, 114, 116, 115, 32,
            111, 110, 32, 116, 104, 101, 32, 115, 97, 109, 101, 32, 115, 116, 97, 99, 107, 32, 109, 101,
            109, 98, 101, 114, 32, 100, 101, 118, 105, 99, 101, 44, 32, 116, 104, 101, 32, 115, 116, 97,
            99, 107, 119, 105, 115, 101, 32, 98, 97, 110, 100, 119, 105, 100, 116, 104, 32, 115, 104, 111,
            117, 108, 100, 32, 98, 101, 32, 117, 115, 101, 100, 32, 119, 104, 101, 110, 32, 116, 114, 97,
            102, 102, 105, 99, 32, 109, 117, 115, 116, 32, 102, 108, 111, 119, 32, 98, 101, 116, 119, 101,
            101, 110, 32, 112, 111, 114, 116, 115, 32, 108, 111, 99, 97, 116, 101, 100, 32, 111, 110, 32,
            100, 105, 102, 102, 101, 114, 101, 110, 116, 32, 115, 116, 97, 99, 107, 32, 109, 101, 109, 98,
            101, 114, 115, 46, 32, 78, 111, 116, 101, 58, 32, 116, 104, 105, 115, 32, 105, 115, 32, 106,
            117, 115, 116, 32, 109, 121, 32, 97, 115, 115, 117, 109, 112, 116, 105, 111, 110, 32, 97, 98,
            111, 117, 116, 32, 116, 104, 101, 32, 105, 109, 112, 108, 101, 109, 101, 110, 116, 97, 116, 105,
            111, 110, 32, 111, 102, 32, 115, 116, 97, 99, 107, 44, 32, 105, 116, 32, 109, 97, 121, 32,
            98, 101, 32, 100, 105, 102, 102, 101, 114, 101, 110, 116, 32, 119, 105, 116, 104, 32, 116, 104,
            101, 32, 100, 117, 97, 108, 32, 114, 105, 110, 103, 32, 105, 110, 118, 111, 108, 118, 101, 100,
            32, 97, 108, 115, 111, 32, 102, 111, 114, 32, 116, 114, 97, 102, 102, 105, 99, 32, 98, 101,
            116, 119, 101, 101, 110, 32, 116, 119, 111, 32, 112, 111, 114, 116, 115, 32, 111, 110, 32, 116,
            104, 101, 32, 115, 97, 109, 101, 32, 109, 101, 109, 98, 101, 114, 32, 115, 119, 105, 116, 99,
            104, 46, 32, 40, 116, 111, 116, 97, 108, 32, 108, 97, 99, 107, 32, 111, 102, 32, 115, 111,
            32, 99, 97, 108, 108, 101, 100, 32, 108, 111, 99, 97, 108, 32, 115, 119, 105, 116, 99, 104,
            105, 110, 103, 32, 99, 97, 112, 97, 98, 105, 108, 105, 116, 105, 101, 115, 41, 46, 32, 84,
            104, 101, 32, 115, 116, 97, 99, 107, 32, 105, 109, 112, 108, 101, 109, 101, 110, 116, 115, 32,
            97, 32, 100, 117, 97, 108, 32, 114, 105, 110, 103, 32, 116, 111, 112, 111, 108, 111, 103, 121,
            32, 98, 101, 116, 119, 101, 101, 110, 32, 116, 104, 101, 32, 109, 101, 109, 98, 101, 114, 32,
            115, 119, 105, 116, 99, 104, 101, 115, 32, 116, 104, 97, 116, 32, 97, 99, 116, 32, 97, 115,
            32, 97, 110, 32, 101, 120, 116, 101, 110, 115, 105, 111, 110, 32, 111, 102, 32, 116, 104, 101,
            32, 105, 110, 100, 105, 118, 105, 100, 117, 97, 108, 32, 115, 119, 105, 116, 99, 104, 105, 110,
            103, 32, 102, 97, 98, 114, 105, 99, 115, 46, 32, 84, 104, 101, 32, 115, 112, 101, 101, 100,
            32, 111, 102, 32, 116, 104, 101, 32, 114, 105, 110, 103, 32, 102, 111, 114, 32, 97, 32, 115,
            116, 97, 99, 107, 32, 111, 102, 32, 111, 110, 108, 121, 32, 51, 55, 53, 48, 45, 88, 32,
            40, 115, 116, 97, 99, 107, 119, 105, 115, 101, 32, 112, 108, 117, 115, 41, 32, 115, 104, 111,
            117, 108, 100, 32, 98, 101, 32, 51, 50, 32, 71, 98, 112, 115, 32, 102, 117, 108, 108, 32,
            100, 117, 112, 108, 101, 120, 32, 116, 104, 97, 116, 32, 97, 108, 108, 111, 119, 115, 32, 102,
            111, 114, 32, 97, 32, 118, 101, 114, 121, 32, 103, 111, 111, 100, 32, 105, 110, 116, 101, 114,
            99, 111, 110, 110, 101, 99, 116, 105, 111, 110, 32, 98, 101, 116, 119, 101, 101, 110, 32, 109,
            101, 109, 98, 101, 114, 32, 115, 119, 105, 116, 99, 104, 101, 115, 44, 32, 98, 117, 116, 32,
            73, 32, 97, 103, 114, 101, 101, 32, 105, 116, 32, 105, 115, 32, 110, 111, 116, 32, 101, 110,
            111, 117, 103, 104, 32, 116, 111, 32, 99, 108, 97, 115, 115, 105, 102, 121, 32, 116, 104, 101,
            32, 99, 111, 109, 112, 111, 115, 105, 116, 101, 32, 115, 119, 105, 116, 99, 104, 105, 110, 103,
            32, 102, 97, 98, 114, 105, 99, 32, 97, 115, 32, 110, 111, 116, 32, 98, 108, 111, 99, 107,
            105, 110, 103, 46, 32, 79, 110, 32, 116, 104, 101, 32, 111, 116, 104, 101, 114, 32, 104, 97,
            110, 100, 44, 32, 111, 110, 108, 121, 32, 109, 111, 100, 101, 108, 115, 32, 119, 105, 116, 104,
            32, 49, 48, 71, 69, 32, 112, 111, 114, 116, 115, 32, 99, 97, 110, 32, 98, 101, 32, 105,
            110, 116, 101, 114, 99, 111, 110, 110, 101, 99, 116, 101, 100, 32, 97, 116, 32, 99, 111, 109,
            112, 97, 114, 97, 98, 108, 101, 32, 115, 112, 101, 101, 100, 115, 46, 32, 84, 111, 32, 109,
            97, 107, 101, 32, 97, 32, 99, 111, 109, 112, 97, 114, 105, 115, 111, 110, 32, 97, 32, 67,
            54, 53, 48, 48, 32, 101, 113, 117, 105, 112, 112, 101, 100, 32, 119, 105, 116, 104, 32, 83,
            117, 112, 55, 50, 48, 32, 103, 101, 110, 101, 114, 97, 116, 105, 111, 110, 32, 114, 111, 117,
            116, 101, 32, 112, 114, 111, 99, 101, 115, 115, 111, 114, 32, 112, 114, 111, 118, 105, 100, 101,
            115, 32, 117, 112, 32, 116, 111, 32, 52, 48, 32, 71, 98, 112, 115, 32, 112, 101, 114, 32,
            115, 108, 111, 116, 32, 116, 111, 47, 102, 114, 111, 109, 32, 116, 104, 101, 32, 115, 119, 105,
            116, 99, 104, 105, 110, 103, 32, 102, 97, 98, 114, 105, 99, 32, 97, 110, 100, 32, 115, 111,
            109, 101, 32, 108, 105, 110, 101, 99, 97, 114, 100, 115, 32, 97, 114, 101, 32, 102, 97, 115,
            116, 101, 114, 32, 116, 104, 101, 110, 32, 116, 104, 97, 116, 32, 40, 32, 116, 104, 105, 110,
            107, 32, 111, 102, 160, 32, 87, 83, 45, 54, 55, 48, 56, 32, 111, 114, 32, 87, 83, 45,
            54, 55, 49, 54, 32, 119, 105, 116, 104, 32, 56, 32, 97, 110, 100, 32, 49, 54, 32, 116,
            101, 110, 103, 105, 103, 97, 32, 112, 111, 114, 116, 115, 32, 114, 101, 115, 112, 101, 99, 116,
            105, 118, 101, 108, 121, 41, 46, 32, 65, 98, 111, 117, 116, 32, 116, 104, 101, 32, 102, 111,
            114, 119, 97, 114, 100, 105, 110, 103, 32, 99, 97, 112, 97, 99, 105, 116, 121, 32, 105, 110,
            32, 112, 112, 115, 58, 32, 102, 111, 114, 32, 97, 32, 50, 52, 32, 112, 111, 114, 116, 115,
            32, 100, 101, 118, 105, 99, 101, 32, 105, 115, 32, 108, 105, 115, 116, 101, 100, 32, 97, 115,
            32, 54, 53, 46, 53, 32, 77, 98, 112, 115, 32, 116, 104, 97, 116, 32, 97, 99, 99, 111,
            117, 110, 116, 115, 32, 102, 111, 114, 32, 50, 50, 32, 71, 69, 32, 112, 111, 114, 116, 115,
            32, 49, 71, 98, 112, 115, 32, 102, 117, 108, 108, 32, 100, 117, 112, 108, 101, 120, 32, 119,
            105, 116, 104, 32, 54, 52, 32, 98, 121, 116, 101, 32, 102, 114, 97, 109, 101, 115, 46, 32,
            10, 32, 65, 110, 32, 111, 114, 105, 103, 105, 110, 97, 108, 32, 115, 101, 114, 105, 101, 115,
            32, 51, 55, 53, 48, 32, 40, 111, 114, 32, 51, 53, 54, 48, 41, 32, 102, 97, 98, 114,
            105, 99, 32, 105, 115, 32, 51, 50, 32, 71, 98, 112, 115, 46, 160, 32, 84, 104, 105, 115,
            32, 105, 115, 32, 100, 105, 102, 102, 101, 114, 101, 110, 116, 32, 102, 114, 111, 109, 32, 116,
            104, 101, 32, 115, 116, 97, 99, 107, 32, 114, 105, 110, 103, 39, 115, 32, 34, 51, 50, 32,
            71, 98, 112, 115, 34, 32, 40, 119, 104, 105, 99, 104, 32, 105, 115, 32, 114, 101, 97, 108,
            108, 121, 32, 100, 117, 97, 108, 32, 56, 32, 71, 98, 112, 115, 44, 32, 100, 117, 112, 108,
            101, 120, 41, 46, 32, 65, 110, 32, 111, 114, 105, 103, 105, 110, 97, 108, 32, 115, 101, 114,
            105, 101, 115, 32, 51, 55, 53, 48, 32, 40, 111, 114, 32, 51, 53, 54, 48, 41, 32, 105,
            110, 116, 101, 114, 110, 97, 108, 32, 102, 97, 98, 114, 105, 99, 44, 32, 105, 110, 32, 116,
            104, 101, 111, 114, 121, 44, 32, 105, 115, 32, 111, 118, 101, 114, 115, 117, 98, 115, 99, 114,
            105, 98, 101, 100, 32, 98, 121, 32, 109, 111, 114, 101, 32, 116, 104, 97, 110, 32, 49, 54,
            32, 103, 105, 103, 32, 112, 111, 114, 116, 115, 32, 40, 105, 46, 101, 46, 32, 116, 104, 101,
            32, 34, 71, 34, 32, 115, 117, 102, 102, 105, 120, 101, 100, 32, 111, 114, 105, 103, 105, 110,
            97, 108, 32, 109, 111, 100, 101, 108, 115, 41, 46, 32, 84, 104, 101, 32, 116, 101, 114, 109,
            115, 32, 110, 111, 110, 45, 98, 108, 111, 99, 107, 105, 110, 103, 32, 97, 110, 100, 32, 98,
            108, 111, 99, 107, 105, 110, 103, 44, 32, 119, 104, 101, 110, 32, 101, 120, 97, 109, 105, 110,
            105, 110, 103, 32, 115, 119, 105, 116, 99, 104, 32, 102, 97, 98, 114, 105, 99, 32, 105, 115,
            110, 39, 116, 32, 106, 117, 115, 116, 32, 115, 117, 102, 102, 105, 99, 105, 101, 110, 116, 32,
            98, 97, 110, 100, 119, 105, 100, 116, 104, 32, 99, 97, 112, 97, 99, 105, 116, 121, 32, 116,
            111, 32, 102, 111, 114, 119, 97, 114, 100, 32, 97, 108, 108, 32, 112, 111, 114, 116, 32, 98,
            97, 110, 100, 119, 105, 100, 116, 104, 115, 44, 32, 105, 116, 39, 115, 32, 119, 104, 101, 116,
            104, 101, 114, 32, 116, 104, 101, 32, 102, 97, 98, 114, 105, 99, 39, 115, 32, 97, 114, 99,
            104, 105, 116, 101, 99, 116, 117, 114, 101, 32, 119, 105, 108, 108, 32, 98, 108, 111, 99, 107,
            44, 32, 111, 114, 32, 110, 111, 116, 44, 32, 102, 111, 114, 119, 97, 114, 100, 105, 110, 103,
            32, 111, 102, 32, 102, 114, 97, 109, 101, 115, 32, 101, 118, 101, 110, 32, 105, 102, 32, 116,
            104, 101, 114, 101, 39, 115, 32, 34, 115, 117, 102, 102, 105, 99, 105, 101, 110, 116, 34, 32,
            98, 97, 110, 100, 119, 105, 100, 116, 104, 46, 32, 70, 111, 114, 32, 101, 120, 97, 109, 112,
            108, 101, 44, 32, 121, 111, 117, 32, 104, 97, 118, 101, 32, 116, 104, 114, 101, 101, 32, 105,
            110, 103, 114, 101, 115, 115, 32, 112, 111, 114, 116, 115, 46, 160, 32, 84, 119, 111, 32, 97,
            114, 101, 32, 115, 101, 110, 100, 105, 110, 103, 32, 116, 111, 32, 111, 110, 101, 32, 101, 103,
            114, 101, 115, 115, 32, 112, 111, 114, 116, 32, 40, 50, 58, 49, 41, 32, 97, 110, 100, 32,
            116, 104, 101, 32, 111, 116, 104, 101, 114, 32, 105, 115, 32, 115, 101, 110, 100, 105, 110, 103,
            32, 116, 111, 32, 111, 116, 104, 101, 114, 32, 101, 103, 114, 101, 115, 115, 32, 112, 111, 114,
            116, 32, 40, 49, 58, 49, 41, 46, 160, 32, 73, 102, 32, 50, 58, 49, 32, 99, 111, 110,
            103, 101, 115, 116, 105, 111, 110, 32, 111, 110, 32, 116, 104, 101, 32, 111, 110, 101, 32, 101,
            103, 114, 101, 115, 115, 32, 112, 111, 114, 116, 32, 100, 101, 108, 97, 121, 115, 32, 40, 111,
            114, 32, 98, 108, 111, 99, 107, 115, 41, 32, 116, 114, 97, 110, 115, 109, 105, 115, 115, 105,
            111, 110, 32, 111, 110, 32, 116, 104, 101, 32, 49, 58, 49, 32, 101, 103, 114, 101, 115, 115,
            32, 112, 111, 114, 116, 44, 32, 121, 111, 117, 32, 104, 97, 118, 101, 32, 72, 79, 76, 32,
            40, 104, 101, 97, 100, 45, 111, 102, 45, 108, 105, 110, 101, 41, 32, 98, 108, 111, 99, 107,
            105, 110, 103, 32, 101, 118, 101, 110, 32, 116, 104, 111, 117, 103, 104, 32, 116, 104, 101, 32,
            105, 110, 116, 101, 114, 110, 97, 108, 32, 102, 97, 98, 114, 105, 99, 39, 115, 32, 98, 97,
            110, 100, 119, 105, 100, 116, 104, 32, 99, 111, 117, 108, 100, 32, 115, 117, 112, 112, 111, 114,
            116, 32, 101, 97, 99, 104, 32, 105, 110, 103, 114, 101, 115, 115, 32, 112, 111, 114, 116, 32,
            115, 101, 110, 100, 105, 110, 103, 32, 116, 111, 32, 97, 32, 115, 101, 112, 97, 114, 97, 116,
            101, 32, 101, 103, 114, 101, 115, 115, 32, 112, 111, 114, 116, 32, 40, 97, 108, 108, 32, 49,
            58, 49, 41, 46, 32, 83, 116, 97, 99, 107, 87, 105, 115, 101, 32, 40, 97, 110, 100, 32,
            83, 116, 97, 99, 107, 87, 105, 115, 101, 43, 41, 44, 32, 119, 104, 101, 110, 32, 97, 118,
            97, 105, 108, 97, 98, 108, 101, 44, 32, 117, 115, 101, 32, 98, 111, 116, 104, 32, 114, 105,
            110, 103, 32, 112, 111, 114, 116, 115, 46, 32, 79, 114, 105, 103, 105, 110, 97, 108, 32, 83,
            116, 97, 99, 107, 87, 105, 115, 101, 32, 99, 111, 112, 105, 101, 115, 32, 65, 76, 76, 32,
            109, 101, 109, 98, 101, 114, 32, 115, 119, 105, 116, 99, 104, 32, 116, 114, 97, 102, 102, 105,
            99, 32, 116, 111, 32, 116, 104, 101, 32, 115, 116, 97, 99, 107, 32, 114, 105, 110, 103, 46,
            160, 32, 79, 114, 105, 103, 105, 110, 97, 108, 32, 83, 116, 97, 99, 107, 87, 105, 115, 101,
            32, 115, 111, 117, 114, 99, 101, 32, 115, 116, 97, 99, 107, 32, 109, 101, 109, 98, 101, 114,
            32, 97, 108, 115, 111, 32, 114, 101, 109, 111, 118, 101, 115, 32, 116, 104, 101, 32, 116, 114,
            97, 102, 102, 105, 99, 32, 105, 116, 32, 112, 108, 97, 99, 101, 100, 32, 111, 110, 32, 116,
            104, 101, 32, 115, 116, 97, 99, 107, 32, 114, 105, 110, 103, 46, 32, 83, 116, 97, 99, 107,
            87, 105, 115, 101, 32, 80, 108, 117, 115, 32, 111, 110, 108, 121, 32, 112, 108, 97, 99, 101,
            115, 32, 117, 110, 105, 99, 97, 115, 116, 32, 116, 114, 97, 102, 102, 105, 99, 32, 111, 110,
            32, 116, 104, 101, 32, 115, 116, 97, 99, 107, 32, 114, 105, 110, 103, 32, 119, 104, 101, 110,
            32, 100, 101, 115, 116, 105, 110, 97, 116, 105, 111, 110, 32, 105, 115, 32, 110, 111, 116, 32,
            97, 32, 108, 111, 99, 97, 108, 32, 115, 119, 105, 116, 99, 104, 32, 112, 111, 114, 116, 46,
            160, 32, 65, 100, 100, 105, 116, 105, 111, 110, 97, 108, 108, 121, 44, 32, 100, 101, 115, 116,
            105, 110, 97, 116, 105, 111, 110, 32, 115, 119, 105, 116, 99, 104, 32, 109, 101, 109, 98, 101,
            114, 32, 114, 101, 109, 111, 118, 101, 115, 32, 117, 110, 105, 99, 97, 115, 116, 32, 112, 97,
            99, 107, 101, 116, 115, 46, 160, 32, 40, 73, 46, 101, 46, 32, 83, 116, 97, 99, 107, 87,
            105, 115, 101, 43, 32, 117, 115, 101, 115, 32, 105, 116, 39, 115, 32, 114, 105, 110, 103, 32,
            109, 117, 99, 104, 32, 109, 111, 114, 101, 32, 105, 110, 116, 101, 108, 108, 105, 103, 101, 110,
            116, 108, 121, 46, 160, 32, 73, 116, 32, 97, 108, 115, 111, 32, 104, 97, 115, 32, 100, 117,
            97, 108, 32, 49, 54, 32, 71, 98, 112, 115, 32, 115, 116, 97, 99, 107, 32, 114, 105, 110,
            103, 32, 112, 111, 114, 116, 115, 46, 160, 32, 78, 66, 58, 83, 116, 97, 99, 107, 87, 105,
            115, 101, 43, 44, 32, 102, 111, 114, 32, 116, 104, 101, 32, 109, 111, 115, 116, 32, 112, 97,
            114, 116, 44, 32, 114, 101, 118, 101, 114, 116, 115, 32, 116, 111, 32, 83, 116, 97, 99, 107,
            87, 105, 115, 101, 32, 111, 112, 101, 114, 97, 116, 105, 111, 110, 32, 105, 102, 32, 116, 104,
            101, 114, 101, 39, 115, 32, 97, 32, 83, 116, 97, 99, 107, 87, 105, 115, 101, 32, 111, 110,
            108, 121, 32, 109, 101, 109, 98, 101, 114, 32, 115, 119, 105, 116, 99, 104, 32, 105, 110, 32,
            116, 104, 101, 32, 115, 116, 97, 99, 107, 32, 91, 103, 111, 111, 100, 32, 114, 101, 97, 115,
            111, 110, 32, 110, 111, 116, 32, 116, 111, 32, 117, 115, 101, 32, 115, 117, 99, 104, 32, 109,
            105, 120, 101, 100, 32, 115, 116, 97, 99, 107, 115, 93, 46, 41, 32, 66, 105, 116, 115, 32,
            112, 101, 114, 32, 115, 101, 99, 111, 110, 100, 44, 32, 105, 115, 32, 116, 104, 101, 32, 116,
            114, 97, 110, 115, 109, 105, 115, 115, 105, 111, 110, 32, 114, 97, 116, 101, 32, 115, 117, 112,
            112, 111, 114, 116, 101, 100, 32, 98, 121, 32, 116, 104, 101, 32, 109, 101, 100, 105, 97, 46,
            160, 32, 83, 111, 44, 32, 102, 111, 114, 32, 101, 120, 97, 109, 112, 108, 101, 44, 32, 49,
            48, 48, 32, 77, 98, 112, 115, 32, 97, 108, 108, 111, 119, 115, 32, 116, 114, 97, 110, 115,
            109, 105, 115, 115, 105, 111, 110, 32, 111, 102, 32, 49, 48, 48, 44, 48, 48, 48, 44, 48,
            48, 48, 32, 98, 105, 116, 115, 32, 112, 101, 114, 32, 115, 101, 99, 111, 110, 100, 115, 46,
            160, 32, 72, 111, 119, 101, 118, 101, 114, 44, 32, 116, 114, 97, 110, 115, 102, 101, 114, 114,
            105, 110, 103, 32, 97, 99, 116, 117, 97, 108, 32, 100, 97, 116, 97, 44, 32, 105, 110, 32,
            115, 111, 109, 101, 116, 104, 105, 110, 103, 32, 108, 105, 107, 101, 32, 112, 104, 121, 115, 105,
            99, 97, 108, 32, 115, 101, 103, 109, 101, 110, 116, 115, 32, 40, 101, 46, 103, 46, 32, 102,
            114, 97, 109, 101, 115, 41, 32, 117, 115, 101, 115, 32, 115, 111, 109, 101, 32, 111, 102, 32,
            116, 104, 105, 115, 32, 99, 97, 112, 97, 99, 105, 116, 121, 32, 102, 111, 114, 32, 98, 111,
            116, 104, 32, 102, 114, 97, 109, 105, 110, 103, 32, 111, 118, 101, 114, 104, 101, 97, 100, 32,
            97, 110, 100, 32, 102, 114, 97, 109, 105, 110, 103, 32, 100, 101, 108, 105, 110, 101, 97, 116,
            105, 111, 110, 44, 32, 115, 111, 32, 117, 115, 101, 102, 117, 108, 32, 99, 97, 112, 97, 99,
            105, 116, 121, 32, 105, 115, 32, 108, 101, 115, 115, 32, 116, 104, 97, 110, 32, 116, 104, 101,
            32, 111, 102, 116, 101, 110, 32, 113, 117, 111, 116, 101, 100, 32, 98, 112, 115, 32, 114, 97,
            116, 101, 46, 160, 32, 85, 115, 101, 102, 117, 108, 32, 99, 97, 112, 97, 99, 105, 116, 121,
            32, 112, 101, 114, 99, 101, 110, 116, 97, 103, 101, 32, 40, 111, 102, 32, 111, 118, 101, 114,
            97, 108, 108, 32, 114, 97, 116, 101, 41, 32, 97, 108, 115, 111, 32, 103, 101, 110, 101, 114,
            97, 108, 108, 121, 32, 100, 101, 99, 114, 101, 97, 115, 101, 115, 32, 97, 115, 32, 102, 114,
            97, 109, 101, 32, 115, 105, 122, 101, 32, 100, 101, 99, 114, 101, 97, 115, 101, 115, 46, 160,
            32, 40, 66, 84, 87, 44, 32, 115, 105, 109, 105, 108, 97, 114, 32, 105, 115, 115, 117, 101,
            32, 119, 105, 116, 104, 32, 100, 105, 115, 107, 32, 109, 101, 100, 105, 97, 46, 160, 32, 65,
            116, 32, 108, 101, 97, 115, 116, 32, 100, 105, 115, 107, 32, 99, 97, 112, 97, 99, 105, 116,
            121, 32, 105, 115, 110, 39, 116, 44, 32, 103, 101, 110, 101, 114, 97, 108, 108, 121, 44, 32,
            113, 117, 111, 116, 101, 100, 32, 102, 111, 114, 32, 105, 116, 115, 32, 117, 110, 102, 111, 114,
            109, 97, 116, 116, 101, 100, 32, 99, 97, 112, 97, 99, 105, 116, 121, 32, 97, 110, 121, 32,
            108, 111, 110, 103, 101, 114, 46, 41, 32, 84, 104, 101, 32, 50, 53, 32, 77, 98, 112, 115,
            32, 116, 104, 114, 111, 117, 103, 104, 112, 117, 116, 32, 105, 115, 32, 114, 97, 116, 101, 100,
            32, 102, 111, 114, 32, 109, 105, 110, 105, 109, 117, 109, 32, 115, 105, 122, 101, 100, 32, 112,
            97, 99, 107, 101, 116, 115, 46, 160, 32, 76, 97, 114, 103, 101, 114, 32, 112, 97, 99, 107,
            101, 116, 115, 32, 111, 102, 116, 101, 110, 32, 97, 108, 108, 111, 119, 32, 109, 117, 99, 104,
            32, 104, 105, 103, 104, 101, 114, 32, 116, 104, 114, 111, 117, 103, 104, 112, 117, 116, 32, 97,
            115, 32, 116, 104, 101, 32, 112, 97, 99, 107, 101, 116, 115, 32, 112, 101, 114, 32, 115, 101,
            99, 111, 110, 100, 32, 114, 101, 113, 117, 105, 114, 101, 109, 101, 110, 116, 32, 40, 102, 111,
            114, 32, 115, 97, 109, 101, 32, 98, 97, 110, 100, 119, 105, 100, 116, 104, 41, 32, 100, 101,
            99, 114, 101, 97, 115, 101, 115, 46, 160, 32, 40, 83, 111, 109, 101, 116, 105, 109, 101, 115,
            32, 116, 104, 101, 32, 118, 101, 110, 100, 111, 114, 32, 119, 105, 108, 108, 32, 100, 111, 99,
            117, 109, 101, 110, 116, 32, 80, 80, 83, 32, 114, 97, 116, 101, 115, 32, 102, 111, 114, 32,
            109, 117, 108, 116, 105, 112, 108, 101, 32, 112, 97, 99, 107, 101, 116, 32, 115, 105, 122, 101,
            115, 46, 160, 32, 87, 105, 116, 104, 111, 117, 116, 32, 115, 117, 99, 104, 32, 100, 111, 99,
            117, 109, 101, 110, 116, 97, 116, 105, 111, 110, 44, 32, 111, 114, 32, 121, 111, 117, 114, 32,
            111, 119, 110, 32, 116, 101, 115, 116, 105, 110, 103, 44, 32, 106, 117, 115, 116, 32, 107, 110,
            111, 119, 105, 110, 103, 32, 100, 111, 99, 117, 109, 101, 110, 116, 101, 100, 32, 112, 101, 114,
            102, 111, 114, 109, 97, 110, 99, 101, 32, 102, 111, 114, 32, 111, 110, 101, 32, 112, 97, 99,
            107, 101, 116, 32, 115, 105, 122, 101, 32, 121, 111, 117, 32, 99, 97, 110, 110, 111, 116, 32,
            97, 99, 99, 117, 114, 97, 116, 101, 108, 121, 32, 112, 114, 101, 100, 105, 99, 116, 32, 97,
            32, 100, 101, 118, 105, 99, 101, 39, 115, 32, 112, 101, 114, 102, 111, 114, 109, 97, 110, 99,
            101, 32, 102, 111, 114, 32, 111, 116, 104, 101, 114, 32, 112, 97, 99, 107, 101, 116, 32, 115,
            105, 122, 101, 115, 46, 41, 32, 10, 32, 20358, 28304, 32, 10, 32, 83, 119, 105, 116, 99, 104,
            32, 98, 97, 99, 107, 112, 108, 97, 110, 101, 32, 98, 97, 110, 100, 119, 105, 100, 116, 104,
            44, 32, 115, 119, 105, 116, 99, 104, 105, 110, 103, 32, 99, 97, 112, 97, 99, 105, 116, 121,
            44, 32, 112, 97, 99, 107, 101, 116, 32, 102, 111, 114, 119, 97, 114, 100, 105, 110, 103, 32,
            114, 97, 116, 101, 32, 100, 105, 102, 102, 101, 114, 101, 110, 99, 101, 32, 66, 97, 99, 107,
            112, 108, 97, 110, 101, 32, 98, 97, 110, 100, 119, 105, 100, 116, 104, 32, 114, 101, 102, 101,
            114, 115, 32, 116, 111, 32, 116, 104, 101, 32, 101, 110, 116, 105, 114, 101, 32, 115, 119, 105,
            116, 99, 104, 105, 110, 103, 32, 99, 97, 112, 97, 99, 105, 116, 121, 32, 111, 102, 32, 116,
            104, 101, 32, 98, 97, 99, 107, 112, 108, 97, 110, 101, 44, 32, 115, 119, 105, 116, 99, 104,
            105, 110, 103, 32, 99, 97, 112, 97, 99, 105, 116, 121, 32, 114, 101, 102, 101, 114, 115, 32,
            116, 111, 32, 116, 104, 101, 32, 115, 119, 105, 116, 99, 104, 105, 110, 103, 32, 99, 97, 112,
            97, 99, 105, 116, 121, 32, 111, 102, 32, 116, 104, 101, 32, 67, 80, 85, 44, 32, 97, 110,
            100, 32, 112, 97, 99, 107, 101, 116, 32, 102, 111, 114, 119, 97, 114, 100, 105, 110, 103, 32,
            114, 101, 102, 101, 114, 115, 32, 116, 111, 32, 116, 104, 101, 32, 99, 97, 112, 97, 99, 105,
            116, 121, 32, 111, 102, 32, 116, 104, 101, 32, 116, 104, 114, 101, 101, 45, 108, 97, 121, 101,
            114, 32, 102, 111, 114, 119, 97, 114, 100, 105, 110, 103, 46, 32, 70, 105, 114, 115, 116, 44,
            32, 116, 104, 101, 32, 98, 97, 99, 107, 112, 108, 97, 110, 101, 32, 98, 97, 110, 100, 119,
            105, 100, 116, 104, 32, 49, 46, 32, 83, 119, 105, 116, 99, 104, 32, 98, 97, 99, 107, 112,
            108, 97, 110, 101, 32, 98, 97, 110, 100, 119, 105, 100, 116, 104, 32, 109, 101, 97, 110, 105,
            110, 103, 32, 10, 32, 84, 104, 101, 32, 98, 97, 99, 107, 112, 108, 97, 110, 101, 32, 98,
            97, 110, 100, 119, 105, 100, 116, 104, 32, 111, 102, 32, 116, 104, 101, 32, 115, 119, 105, 116,
            99, 104, 44, 32, 97, 108, 115, 111, 32, 99, 97, 108, 108, 101, 100, 32, 116, 104, 101, 32,
            98, 97, 99, 107, 112, 108, 97, 110, 101, 32, 99, 97, 112, 97, 99, 105, 116, 121, 44, 32,
            105, 115, 32, 116, 104, 101, 32, 109, 97, 120, 105, 109, 117, 109, 32, 97, 109, 111, 117, 110,
            116, 32, 111, 102, 32, 100, 97, 116, 97, 32, 116, 104, 97, 116, 32, 99, 97, 110, 32, 98,
            101, 32, 104, 97, 110, 100, 108, 101, 100, 32, 98, 101, 116, 119, 101, 101, 110, 32, 116, 104,
            101, 32, 115, 119, 105, 116, 99, 104, 32, 105, 110, 116, 101, 114, 102, 97, 99, 101, 32, 112,
            114, 111, 99, 101, 115, 115, 111, 114, 32, 111, 114, 32, 116, 104, 101, 32, 105, 110, 116, 101,
            114, 102, 97, 99, 101, 32, 99, 97, 114, 100, 32, 97, 110, 100, 32, 116, 104, 101, 32, 100,
            97, 116, 97, 32, 98, 117, 115, 46, 32, 84, 104, 101, 32, 98, 97, 99, 107, 112, 108, 97,
            110, 101, 32, 98, 97, 110, 100, 119, 105, 100, 116, 104, 32, 109, 97, 114, 107, 115, 32, 116,
            104, 101, 32, 116, 111, 116, 97, 108, 32, 100, 97, 116, 97, 32, 101, 120, 99, 104, 97, 110,
            103, 101, 32, 99, 97, 112, 97, 99, 105, 116, 121, 32, 111, 102, 32, 116, 104, 101, 32, 115,
            119, 105, 116, 99, 104, 44, 32, 105, 110, 32, 71, 98, 112, 115, 46, 32, 84, 104, 101, 32,
            98, 97, 99, 107, 112, 108, 97, 110, 101, 32, 98, 97, 110, 100, 119, 105, 100, 116, 104, 32,
            111, 102, 32, 97, 32, 116, 121, 112, 105, 99, 97, 108, 32, 115, 119, 105, 116, 99, 104, 32,
            114, 97, 110, 103, 101, 115, 32, 102, 114, 111, 109, 32, 97, 32, 102, 101, 119, 32, 71, 98,
            112, 115, 32, 116, 111, 32, 104, 117, 110, 100, 114, 101, 100, 115, 32, 111, 102, 32, 71, 98,
            112, 115, 46, 32, 84, 104, 101, 32, 104, 105, 103, 104, 101, 114, 32, 116, 104, 101, 32, 98,
            97, 99, 107, 112, 108, 97, 110, 101, 32, 98, 97, 110, 100, 119, 105, 100, 116, 104, 32, 111,
            102, 32, 97, 32, 115, 119, 105, 116, 99, 104, 44, 32, 116, 104, 101, 32, 98, 101, 116, 116,
            101, 114, 32, 116, 104, 101, 32, 97, 98, 105, 108, 105, 116, 121, 32, 116, 111, 32, 112, 114,
            111, 99, 101, 115, 115, 32, 100, 97, 116, 97, 44, 32, 98, 117, 116, 32, 97, 116, 32, 116,
            104, 101, 32, 115, 97, 109, 101, 32, 116, 105, 109, 101, 32, 116, 104, 101, 32, 100, 101, 115,
            105, 103, 110, 32, 99, 111, 115, 116, 32, 119, 105, 108, 108, 32, 98, 101, 32, 104, 105, 103,
            104, 101, 114, 46, 32, 50, 46, 32, 84, 104, 101, 32, 105, 110, 116, 101, 114, 110, 97, 108,
            32, 115, 116, 114, 117, 99, 116, 117, 114, 101, 32, 111, 102, 32, 116, 104, 101, 32, 115, 119,
            105, 116, 99, 104, 32, 10, 32, 84, 104, 101, 32, 117, 116, 105, 108, 105, 122, 97, 116, 105,
            111, 110, 32, 111, 102, 32, 98, 97, 99, 107, 112, 108, 97, 110, 101, 32, 98, 97, 110, 100,
            119, 105, 100, 116, 104, 32, 114, 101, 115, 111, 117, 114, 99, 101, 115, 32, 105, 115, 32, 99,
            108, 111, 115, 101, 108, 121, 32, 114, 101, 108, 97, 116, 101, 100, 32, 116, 111, 32, 116, 104,
            101, 32, 105, 110, 116, 101, 114, 110, 97, 108, 32, 115, 116, 114, 117, 99, 116, 117, 114, 101,
            32, 111, 102, 32, 116, 104, 101, 32, 115, 119, 105, 116, 99, 104, 46, 32, 65, 116, 32, 112,
            114, 101, 115, 101, 110, 116, 44, 32, 116, 104, 101, 32, 105, 110, 116, 101, 114, 110, 97, 108,
            32, 115, 116, 114, 117, 99, 116, 117, 114, 101, 32, 111, 102, 32, 116, 104, 101, 32, 115, 119,
            105, 116, 99, 104, 32, 109, 97, 105, 110, 108, 121, 32, 104, 97, 115, 32, 116, 104, 101, 32,
            102, 111, 108, 108, 111, 119, 105, 110, 103, 32, 116, 121, 112, 101, 115, 58, 32, 10, 32, 70,
            105, 114, 115, 116, 44, 32, 97, 32, 115, 104, 97, 114, 101, 100, 32, 109, 101, 109, 111, 114,
            121, 32, 115, 116, 114, 117, 99, 116, 117, 114, 101, 44, 32, 119, 104, 105, 99, 104, 32, 114,
            101, 108, 105, 101, 115, 32, 111, 110, 32, 97, 32, 99, 101, 110, 116, 114, 97, 108, 32, 115,
            119, 105, 116, 99, 104, 105, 110, 103, 32, 101, 110, 103, 105, 110, 101, 32, 116, 111, 32, 112,
            114, 111, 118, 105, 100, 101, 32, 97, 32, 104, 105, 103, 104, 45, 112, 101, 114, 102, 111, 114,
            109, 97, 110, 99, 101, 32, 99, 111, 110, 110, 101, 99, 116, 105, 111, 110, 32, 102, 111, 114,
            32, 97, 32, 102, 117, 108, 108, 32, 112, 111, 114, 116, 44, 32, 97, 110, 100, 32, 116, 104,
            101, 32, 99, 111, 114, 101, 32, 101, 110, 103, 105, 110, 101, 32, 99, 104, 101, 99, 107, 115,
            32, 101, 97, 99, 104, 32, 105, 110, 112, 117, 116, 32, 112, 97, 99, 107, 101, 116, 32, 116,
            111, 32, 100, 101, 116, 101, 114, 109, 105, 110, 101, 32, 97, 32, 114, 111, 117, 116, 101, 46,
            32, 84, 104, 105, 115, 32, 109, 101, 116, 104, 111, 100, 32, 114, 101, 113, 117, 105, 114, 101,
            115, 32, 97, 32, 108, 97, 114, 103, 101, 32, 109, 101, 109, 111, 114, 121, 32, 98, 97, 110,
            100, 119, 105, 100, 116, 104, 32, 97, 110, 100, 32, 104, 105, 103, 104, 32, 109, 97, 110, 97,
            103, 101, 109, 101, 110, 116, 32, 99, 111, 115, 116, 46, 32, 69, 115, 112, 101, 99, 105, 97,
            108, 108, 121, 32, 119, 105, 116, 104, 32, 116, 104, 101, 32, 105, 110, 99, 114, 101, 97, 115,
            101, 32, 111, 102, 32, 116, 104, 101, 32, 115, 119, 105, 116, 99, 104, 32, 112, 111, 114, 116,
            44, 32, 116, 104, 101, 32, 112, 114, 105, 99, 101, 32, 111, 102, 32, 116, 104, 101, 32, 99,
            101, 110, 116, 114, 97, 108, 32, 109, 101, 109, 111, 114, 121, 32, 119, 105, 108, 108, 32, 98,
            101, 32, 118, 101, 114, 121, 32, 104, 105, 103, 104, 44, 32, 115, 111, 32, 116, 104, 101, 32,
            115, 119, 105, 116, 99, 104, 32, 99, 111, 114, 101, 32, 98, 101, 99, 111, 109, 101, 115, 32,
            116, 104, 101, 32, 98, 111, 116, 116, 108, 101, 110, 101, 99, 107, 32, 111, 102, 32, 112, 101,
            114, 102, 111, 114, 109, 97, 110, 99, 101, 32, 114, 101, 97, 108, 105, 122, 97, 116, 105, 111,
            110, 59, 32, 10, 32, 116, 104, 101, 32, 115, 101, 99, 111, 110, 100, 32, 105, 115, 32, 116,
            104, 101, 32, 99, 114, 111, 115, 115, 32, 98, 117, 115, 32, 115, 116, 114, 117, 99, 116, 117,
            114, 101, 44, 32, 119, 104, 105, 99, 104, 32, 99, 97, 110, 32, 69, 115, 116, 97, 98, 108,
            105, 115, 104, 32, 97, 32, 100, 105, 114, 101, 99, 116, 32, 112, 111, 105, 110, 116, 45, 116,
            111, 45, 112, 111, 105, 110, 116, 32, 99, 111, 110, 110, 101, 99, 116, 105, 111, 110, 32, 98,
            101, 116, 119, 101, 101, 110, 32, 112, 111, 114, 116, 115, 44, 32, 119, 104, 105, 99, 104, 32,
            105, 115, 32, 103, 111, 111, 100, 32, 102, 111, 114, 32, 115, 105, 110, 103, 108, 101, 45, 112,
            111, 105, 110, 116, 32, 116, 114, 97, 110, 115, 109, 105, 115, 115, 105, 111, 110, 44, 32, 98,
            117, 116, 32, 110, 111, 116, 32, 115, 117, 105, 116, 97, 98, 108, 101, 32, 102, 111, 114, 32,
            109, 117, 108, 116, 105, 45, 112, 111, 105, 110, 116, 32, 116, 114, 97, 110, 115, 109, 105, 115,
            115, 105, 111, 110, 59, 32, 10, 32, 116, 104, 101, 32, 116, 104, 105, 114, 100, 32, 105, 115,
            32, 97, 32, 104, 121, 98, 114, 105, 100, 32, 99, 114, 111, 115, 115, 45, 98, 117, 115, 32,
            115, 116, 114, 117, 99, 116, 117, 114, 101, 44, 32, 119, 104, 105, 99, 104, 32, 105, 115, 32,
            97, 32, 104, 121, 98, 114, 105, 100, 32, 99, 114, 111, 115, 115, 45, 98, 117, 115, 32, 105,
            109, 112, 108, 101, 109, 101, 110, 116, 97, 116, 105, 111, 110, 46, 32, 73, 116, 115, 32, 100,
            101, 115, 105, 103, 110, 32, 105, 100, 101, 97, 32, 105, 115, 32, 116, 111, 32, 105, 110, 116,
            101, 103, 114, 97, 116, 101, 32, 84, 104, 101, 32, 99, 114, 111, 115, 115, 32, 98, 117, 115,
            32, 109, 97, 116, 114, 105, 120, 32, 105, 115, 32, 100, 105, 118, 105, 100, 101, 100, 32, 105,
            110, 116, 111, 32, 115, 109, 97, 108, 108, 32, 99, 114, 111, 115, 115, 32, 109, 97, 116, 114,
            105, 99, 101, 115, 32, 99, 111, 110, 110, 101, 99, 116, 101, 100, 32, 98, 121, 32, 97, 32,
            104, 105, 103, 104, 32, 112, 101, 114, 102, 111, 114, 109, 97, 110, 99, 101, 32, 98, 117, 115,
            46, 32, 84, 104, 101, 32, 97, 100, 118, 97, 110, 116, 97, 103, 101, 32, 105, 115, 32, 116,
            104, 97, 116, 32, 116, 104, 101, 32, 110, 117, 109, 98, 101, 114, 32, 111, 102, 32, 99, 114,
            111, 115, 115, 45, 98, 117, 115, 101, 115, 32, 105, 115, 32, 114, 101, 100, 117, 99, 101, 100,
            44, 32, 116, 104, 101, 32, 99, 111, 115, 116, 32, 105, 115, 32, 114, 101, 100, 117, 99, 101,
            100, 44, 32, 97, 110, 100, 32, 98, 117, 115, 32, 99, 111, 110, 116, 101, 110, 116, 105, 111,
            110, 32, 105, 115, 32, 114, 101, 100, 117, 99, 101, 100, 59, 32, 104, 111, 119, 101, 118, 101,
            114, 44, 32, 116, 104, 101, 32, 98, 117, 115, 32, 99, 111, 110, 110, 101, 99, 116, 105, 110,
            103, 32, 116, 104, 101, 32, 99, 114, 111, 115, 115, 45, 109, 97, 116, 114, 105, 120, 32, 98,
            101, 99, 111, 109, 101, 115, 32, 97, 32, 110, 101, 119, 32, 112, 101, 114, 102, 111, 114, 109,
            97, 110, 99, 101, 32, 98, 111, 116, 116, 108, 101, 110, 101, 99, 107, 46, 32, 51, 46, 32,
            76, 105, 110, 101, 97, 114, 32, 110, 111, 110, 45, 98, 108, 111, 99, 107, 105, 110, 103, 32,
            116, 114, 97, 110, 115, 109, 105, 115, 115, 105, 111, 110, 32, 10, 32, 84, 104, 101, 32, 98,
            101, 115, 116, 32, 112, 101, 114, 102, 111, 114, 109, 97, 110, 99, 101, 32, 119, 101, 32, 99,
            97, 110, 32, 98, 117, 121, 32, 102, 111, 114, 32, 116, 104, 101, 32, 116, 114, 97, 110, 115,
            102, 101, 114, 32, 109, 97, 99, 104, 105, 110, 101, 32, 105, 115, 32, 116, 111, 32, 114, 101,
            113, 117, 105, 114, 101, 32, 108, 105, 110, 101, 97, 114, 32, 110, 111, 110, 45, 98, 108, 111,
            99, 107, 105, 110, 103, 32, 116, 114, 97, 110, 115, 109, 105, 115, 115, 105, 111, 110, 46, 32,
            72, 111, 119, 32, 100, 111, 32, 119, 101, 32, 105, 110, 118, 101, 115, 116, 105, 103, 97, 116,
            101, 32, 119, 104, 101, 116, 104, 101, 114, 32, 116, 104, 101, 32, 98, 97, 99, 107, 112, 108,
            97, 110, 101, 32, 98, 97, 110, 100, 119, 105, 100, 116, 104, 32, 111, 102, 32, 97, 32, 115,
            119, 105, 116, 99, 104, 32, 105, 115, 32, 115, 117, 102, 102, 105, 99, 105, 101, 110, 116, 63,
            32, 72, 111, 119, 32, 116, 111, 32, 100, 101, 116, 101, 114, 109, 105, 110, 101, 32, 119, 104,
            101, 116, 104, 101, 114, 32, 116, 104, 101, 32, 100, 101, 115, 105, 103, 110, 32, 111, 102, 32,
            116, 104, 101, 32, 115, 119, 105, 116, 99, 104, 32, 121, 111, 117, 32, 98, 111, 117, 103, 104,
            116, 32, 105, 115, 32, 114, 101, 97, 115, 111, 110, 97, 98, 108, 101, 44, 32, 97, 110, 100,
            32, 116, 104, 101, 114, 101, 32, 105, 115, 32, 97, 32, 98, 108, 111, 99, 107, 105, 110, 103,
            32, 115, 116, 114, 117, 99, 116, 117, 114, 101, 32, 100, 101, 115, 105, 103, 110, 63, 32, 10,
            32, 67, 97, 108, 99, 117, 108, 97, 116, 105, 111, 110, 32, 102, 111, 114, 109, 117, 108, 97,
            58, 32, 10, 32, 65, 46, 32, 84, 104, 101, 32, 115, 117, 109, 32, 111, 102, 32, 116, 104,
            101, 32, 110, 117, 109, 98, 101, 114, 32, 111, 102, 32, 97, 108, 108, 32, 112, 111, 114, 116,
            32, 99, 97, 112, 97, 99, 105, 116, 121, 32, 88, 32, 112, 111, 114, 116, 115, 32, 115, 104,
            111, 117, 108, 100, 32, 98, 101, 32, 108, 101, 115, 115, 32, 116, 104, 97, 110, 32, 116, 104,
            101, 32, 98, 97, 99, 107, 112, 108, 97, 110, 101, 32, 98, 97, 110, 100, 119, 105, 100, 116,
            104, 44, 32, 119, 104, 105, 99, 104, 32, 99, 97, 110, 32, 114, 101, 97, 108, 105, 122, 101,
            32, 102, 117, 108, 108, 45, 100, 117, 112, 108, 101, 120, 32, 110, 111, 110, 45, 98, 108, 111,
            99, 107, 105, 110, 103, 32, 115, 119, 105, 116, 99, 104, 105, 110, 103, 44, 32, 119, 104, 105,
            99, 104, 32, 112, 114, 111, 118, 101, 115, 32, 116, 104, 97, 116, 32, 116, 104, 101, 32, 115,
            119, 105, 116, 99, 104, 32, 104, 97, 115, 32, 116, 104, 101, 32, 99, 111, 110, 100, 105, 116,
            105, 111, 110, 115, 32, 111, 102, 32, 109, 97, 120, 105, 109, 105, 122, 105, 110, 103, 32, 100,
            97, 116, 97, 32, 101, 120, 99, 104, 97, 110, 103, 101, 32, 112, 101, 114, 102, 111, 114, 109,
            97, 110, 99, 101, 46, 32, 10, 32, 66, 46, 32, 70, 117, 108, 108, 32, 99, 111, 110, 102,
            105, 103, 117, 114, 97, 116, 105, 111, 110, 32, 116, 104, 114, 111, 117, 103, 104, 112, 117, 116,
            32, 40, 77, 98, 112, 115, 41, 32, 61, 32, 102, 117, 108, 108, 32, 99, 111, 110, 102, 105,
            103, 117, 114, 97, 116, 105, 111, 110, 32, 71, 69, 32, 112, 111, 114, 116, 32, 110, 117, 109,
            98, 101, 114, 32, 215, 32, 49, 46, 52, 56, 56, 32, 77, 112, 112, 115, 44, 32, 119, 104,
            101, 114, 101, 105, 110, 32, 116, 104, 101, 32, 116, 104, 101, 111, 114, 101, 116, 105, 99, 97,
            108, 32, 116, 104, 114, 111, 117, 103, 104, 112, 117, 116, 32, 111, 102, 32, 97, 32, 71, 105,
            103, 97, 98, 105, 116, 32, 112, 111, 114, 116, 32, 119, 105, 116, 104, 32, 97, 32, 112, 97,
            99, 107, 101, 116, 32, 108, 101, 110, 103, 116, 104, 32, 111, 102, 32, 54, 52, 32, 98, 121,
            116, 101, 115, 32, 105, 115, 32, 49, 46, 52, 56, 56, 32, 77, 112, 112, 115, 46, 32, 70,
            111, 114, 32, 101, 120, 97, 109, 112, 108, 101, 44, 32, 97, 32, 115, 119, 105, 116, 99, 104,
            32, 119, 105, 116, 104, 32, 117, 112, 32, 116, 111, 32, 54, 52, 32, 71, 105, 103, 97, 98,
            105, 116, 32, 112, 111, 114, 116, 115, 32, 115, 104, 111, 117, 108, 100, 32, 104, 97, 118, 101,
            32, 97, 32, 102, 117, 108, 108, 32, 99, 111, 110, 102, 105, 103, 117, 114, 97, 116, 105, 111,
            110, 32, 116, 104, 114, 111, 117, 103, 104, 112, 117, 116, 32, 111, 102, 32, 54, 52, 32, 120,
            32, 49, 46, 52, 56, 56, 32, 77, 112, 112, 115, 32, 61, 32, 57, 53, 46, 50, 32, 77,
            112, 112, 115, 32, 116, 111, 32, 101, 110, 115, 117, 114, 101, 32, 110, 111, 110, 45, 98, 108,
            111, 99, 107, 105, 110, 103, 32, 112, 97, 99, 107, 101, 116, 32, 115, 119, 105, 116, 99, 104,
            105, 110, 103, 32, 119, 104, 101, 110, 32, 97, 108, 108, 32, 112, 111, 114, 116, 32, 108, 105,
            110, 101, 32, 115, 112, 101, 101, 100, 115, 32, 97, 114, 101, 32, 119, 111, 114, 107, 105, 110,
            103, 46, 32, 69, 120, 97, 109, 112, 108, 101, 58, 32, 73, 102, 32, 97, 32, 115, 119, 105,
            116, 99, 104, 32, 99, 97, 110, 32, 112, 114, 111, 118, 105, 100, 101, 32, 117, 112, 32, 116,
            111, 32, 49, 55, 54, 32, 71, 105, 103, 97, 98, 105, 116, 32, 112, 111, 114, 116, 115, 32,
            97, 110, 100, 32, 116, 104, 101, 32, 100, 101, 99, 108, 97, 114, 101, 100, 32, 116, 104, 114,
            111, 117, 103, 104, 112, 117, 116, 32, 105, 115, 32, 108, 101, 115, 115, 32, 116, 104, 97, 110,
            32, 50, 54, 49, 46, 56, 32, 77, 112, 112, 115, 32, 40, 49, 55, 54, 32, 120, 32, 49,
            46, 52, 56, 56, 32, 77, 112, 112, 115, 32, 61, 32, 50, 54, 49, 46, 56, 41, 44, 32,
            116, 104, 101, 110, 32, 116, 104, 101, 32, 117, 115, 101, 114, 32, 104, 97, 115, 32, 114, 101,
            97, 115, 111, 110, 32, 116, 111, 32, 98, 101, 108, 105, 101, 118, 101, 32, 116, 104, 97, 116,
            32, 116, 104, 101, 32, 115, 119, 105, 116, 99, 104, 32, 105, 115, 32, 100, 101, 115, 105, 103,
            110, 101, 100, 32, 119, 105, 116, 104, 32, 97, 32, 98, 108, 111, 99, 107, 105, 110, 103, 32,
            115, 116, 114, 117, 99, 116, 117, 114, 101, 46, 32, 10, 32, 70, 111, 114, 32, 49, 48, 32,
            71, 105, 103, 97, 98, 105, 116, 32, 69, 116, 104, 101, 114, 110, 101, 116, 44, 32, 116, 104,
            101, 32, 112, 97, 99, 107, 101, 116, 32, 102, 111, 114, 119, 97, 114, 100, 105, 110, 103, 32,
            114, 97, 116, 101, 32, 111, 102, 32, 97, 32, 119, 105, 114, 101, 45, 115, 112, 101, 101, 100,
            32, 112, 111, 114, 116, 32, 105, 115, 32, 49, 52, 46, 56, 56, 32, 77, 112, 112, 115, 46,
            32, 10, 32, 70, 111, 114, 32, 71, 105, 103, 97, 98, 105, 116, 32, 69, 116, 104, 101, 114,
            110, 101, 116, 44, 32, 116, 104, 101, 32, 112, 97, 99, 107, 101, 116, 32, 102, 111, 114, 119,
            97, 114, 100, 105, 110, 103, 32, 114, 97, 116, 101, 32, 111, 102, 32, 97, 32, 119, 105, 114,
            101, 45, 115, 112, 101, 101, 100, 32, 112, 111, 114, 116, 32, 105, 115, 32, 49, 46, 52, 56,
            56, 32, 77, 112, 112, 115, 46, 32, 10, 32, 70, 111, 114, 32, 70, 97, 115, 116, 32, 69,
            116, 104, 101, 114, 110, 101, 116, 44, 32, 116, 104, 101, 32, 112, 97, 99, 107, 101, 116, 32,
            102, 111, 114, 119, 97, 114, 100, 105, 110, 103, 32, 114, 97, 116, 101, 32, 111, 102, 32, 97,
            32, 119, 105, 114, 101, 45, 115, 112, 101, 101, 100, 32, 112, 111, 114, 116, 32, 105, 115, 32,
            48, 46, 49, 52, 56, 56, 32, 77, 112, 112, 115, 46, 32, 10, 32, 70, 111, 114, 32, 79,
            67, 45, 49, 50, 32, 80, 79, 83, 32, 112, 111, 114, 116, 115, 44, 32, 116, 104, 101, 32,
            112, 97, 99, 107, 101, 116, 32, 102, 111, 114, 119, 97, 114, 100, 105, 110, 103, 32, 114, 97,
            116, 101, 32, 111, 102, 32, 97, 32, 108, 105, 110, 101, 32, 114, 97, 116, 101, 32, 112, 111,
            114, 116, 32, 105, 115, 32, 49, 46, 49, 55, 32, 77, 112, 112, 115, 46, 32, 10, 32, 70,
            111, 114, 32, 116, 104, 101, 32, 80, 79, 83, 32, 112, 111, 114, 116, 32, 111, 102, 32, 79,
            67, 45, 52, 56, 44, 32, 116, 104, 101, 32, 112, 97, 99, 107, 101, 116, 32, 102, 111, 114,
            119, 97, 114, 100, 105, 110, 103, 32, 114, 97, 116, 101, 32, 111, 102, 32, 111, 110, 101, 32,
            108, 105, 110, 101, 45, 115, 112, 101, 101, 100, 32, 112, 111, 114, 116, 32, 105, 115, 32, 52,
            54, 56, 77, 112, 112, 83, 46, 32, 10, 32, 84, 104, 101, 114, 101, 102, 111, 114, 101, 44,
            32, 105, 102, 32, 119, 101, 32, 99, 97, 110, 32, 109, 101, 101, 116, 32, 116, 104, 101, 32,
            97, 98, 111, 118, 101, 32, 116, 104, 114, 101, 101, 32, 99, 111, 110, 100, 105, 116, 105, 111,
            110, 115, 44, 32, 116, 104, 101, 110, 32, 119, 101, 32, 115, 97, 121, 32, 116, 104, 97, 116,
            32, 116, 104, 105, 115, 32, 115, 119, 105, 116, 99, 104, 32, 105, 115, 32, 116, 114, 117, 108,
            121, 32, 108, 105, 110, 101, 97, 114, 32, 97, 110, 100, 32, 110, 111, 110, 45, 98, 108, 111,
            99, 107, 105, 110, 103, 59, 32, 116, 104, 101, 32, 98, 97, 99, 107, 45, 117, 112, 32, 114,
            97, 116, 101, 32, 111, 102, 32, 116, 104, 101, 32, 115, 119, 105, 116, 99, 104, 32, 105, 115,
            32, 103, 101, 110, 101, 114, 97, 108, 108, 121, 58, 32, 10, 32, 77, 98, 112, 115, 44, 32,
            119, 104, 105, 99, 104, 32, 114, 101, 102, 101, 114, 115, 32, 116, 111, 32, 116, 104, 101, 32,
            115, 101, 99, 111, 110, 100, 32, 108, 97, 121, 101, 114, 44, 32, 119, 104, 105, 99, 104, 32,
            105, 115, 32, 117, 115, 101, 100, 32, 102, 111, 114, 32, 116, 104, 101, 32, 101, 120, 99, 104,
            97, 110, 103, 101, 32, 111, 102, 32, 109, 111, 114, 101, 32, 116, 104, 97, 110, 32, 116, 104,
            114, 101, 101, 32, 108, 97, 121, 101, 114, 115, 46, 32, 10, 32, 77, 112, 112, 115, 32, 52,
            46, 32, 84, 104, 101, 32, 98, 97, 99, 107, 112, 108, 97, 110, 101, 32, 98, 97, 110, 100,
            119, 105, 100, 116, 104, 32, 100, 111, 101, 115, 32, 110, 111, 116, 32, 101, 120, 105, 115, 116,
            32, 105, 110, 32, 116, 104, 101, 32, 115, 119, 105, 116, 99, 104, 32, 119, 105, 116, 104, 32,
            116, 104, 101, 32, 102, 105, 120, 101, 100, 32, 112, 111, 114, 116, 46, 32, 10, 32, 84, 104,
            105, 115, 32, 99, 111, 110, 99, 101, 112, 116, 32, 105, 115, 32, 111, 110, 108, 121, 32, 112,
            111, 115, 115, 105, 98, 108, 101, 32, 119, 105, 116, 104, 32, 109, 111, 100, 117, 108, 97, 114,
            32, 115, 119, 105, 116, 99, 104, 101, 115, 32, 40, 119, 105, 116, 104, 32, 115, 99, 97, 108,
            97, 98, 108, 101, 32, 115, 108, 111, 116, 115, 32, 116, 104, 97, 116, 32, 99, 97, 110, 32,
            102, 108, 101, 120, 105, 98, 108, 121, 32, 99, 104, 97, 110, 103, 101, 32, 116, 104, 101, 32,
            110, 117, 109, 98, 101, 114, 32, 111, 102, 32, 112, 111, 114, 116, 115, 41, 46, 32, 70, 105,
            120, 101, 100, 45, 112, 111, 114, 116, 32, 115, 119, 105, 116, 99, 104, 101, 115, 32, 100, 111,
            32, 110, 111, 116, 32, 104, 97, 118, 101, 32, 116, 104, 105, 115, 32, 99, 111, 110, 99, 101,
            112, 116, 44, 32, 97, 110, 100, 32, 116, 104, 101, 32, 98, 97, 99, 107, 112, 108, 97, 110,
            101, 32, 99, 97, 112, 97, 99, 105, 116, 121, 32, 97, 110, 100, 32, 115, 119, 105, 116, 99,
            104, 105, 110, 103, 32, 99, 97, 112, 97, 99, 105, 116, 121, 32, 111, 102, 32, 102, 105, 120,
            101, 100, 45, 112, 111, 114, 116, 32, 115, 119, 105, 116, 99, 104, 101, 115, 32, 97, 114, 101,
            32, 101, 113, 117, 97, 108, 46, 32, 84, 104, 101, 32, 98, 97, 99, 107, 112, 108, 97, 110,
            101, 32, 98, 97, 110, 100, 119, 105, 100, 116, 104, 32, 100, 101, 116, 101, 114, 109, 105, 110,
            101, 115, 32, 116, 104, 101, 32, 109, 97, 120, 105, 109, 117, 109, 32, 98, 97, 110, 100, 119,
            105, 100, 116, 104, 32, 102, 111, 114, 32, 116, 104, 101, 32, 99, 111, 110, 110, 101, 99, 116,
            105, 111, 110, 32, 98, 101, 116, 119, 101, 101, 110, 32, 101, 97, 99, 104, 32, 98, 111, 97,
            114, 100, 32, 40, 105, 110, 99, 108, 117, 100, 105, 110, 103, 32, 98, 111, 97, 114, 100, 115,
            32, 116, 104, 97, 116, 32, 97, 114, 101, 32, 110, 111, 116, 32, 121, 101, 116, 32, 105, 110,
            115, 116, 97, 108, 108, 101, 100, 32, 105, 110, 32, 116, 104, 101, 32, 101, 120, 112, 97, 110,
            100, 97, 98, 108, 101, 32, 115, 108, 111, 116, 41, 32, 97, 110, 100, 32, 116, 104, 101, 32,
            115, 119, 105, 116, 99, 104, 105, 110, 103, 32, 101, 110, 103, 105, 110, 101, 46, 32, 68, 117,
            101, 32, 116, 111, 32, 116, 104, 101, 32, 100, 105, 102, 102, 101, 114, 101, 110, 116, 32, 97,
            114, 99, 104, 105, 116, 101, 99, 116, 117, 114, 101, 115, 32, 111, 102, 32, 109, 111, 100, 117,
            108, 97, 114, 32, 115, 119, 105, 116, 99, 104, 101, 115, 44, 32, 98, 97, 99, 107, 112, 108,
            97, 110, 101, 32, 98, 97, 110, 100, 119, 105, 100, 116, 104, 32, 105, 115, 32, 110, 111, 116,
            32, 102, 117, 108, 108, 121, 32, 101, 102, 102, 101, 99, 116, 105, 118, 101, 32, 97, 116, 32,
            114, 101, 112, 114, 101, 115, 101, 110, 116, 105, 110, 103, 32, 116, 104, 101, 32, 116, 114, 117,
            101, 32, 112, 101, 114, 102, 111, 114, 109, 97, 110, 99, 101, 32, 111, 102, 32, 116, 104, 101,
            32, 115, 119, 105, 116, 99, 104, 46, 32, 70, 105, 120, 101, 100, 32, 112, 111, 114, 116, 32,
            115, 119, 105, 116, 99, 104, 101, 115, 32, 100, 111, 32, 110, 111, 116, 32, 104, 97, 118, 101,
            32, 116, 104, 101, 32, 99, 111, 110, 99, 101, 112, 116, 32, 111, 102, 32, 98, 97, 99, 107,
            112, 108, 97, 110, 101, 32, 98, 97, 110, 100, 119, 105, 100, 116, 104, 46, 32, 83, 101, 99,
            111, 110, 100, 44, 32, 116, 104, 101, 32, 101, 120, 99, 104, 97, 110, 103, 101, 32, 99, 97,
            112, 97, 99, 105, 116, 121, 32, 10, 32, 73, 116, 32, 105, 115, 32, 116, 104, 101, 32, 116,
            114, 97, 110, 115, 109, 105, 115, 115, 105, 111, 110, 32, 99, 97, 112, 97, 99, 105, 116, 121,
            32, 111, 102, 32, 116, 104, 101, 32, 99, 111, 114, 101, 32, 67, 80, 85, 32, 97, 110, 100,
            32, 98, 117, 115, 44, 32, 103, 101, 110, 101, 114, 97, 108, 108, 121, 32, 115, 109, 97, 108,
            108, 101, 114, 32, 116, 104, 97, 110, 32, 116, 104, 101, 32, 98, 97, 99, 107, 112, 108, 97,
            110, 101, 32, 98, 97, 110, 100, 119, 105, 100, 116, 104, 46, 32, 72, 51, 67, 32, 108, 111,
            119, 45, 101, 110, 100, 32, 76, 83, 87, 32, 115, 119, 105, 116, 99, 104, 105, 110, 103, 32,
            117, 115, 101, 115, 32, 116, 104, 101, 32, 115, 116, 111, 114, 101, 45, 97, 110, 100, 45, 102,
            111, 114, 119, 97, 114, 100, 32, 109, 111, 100, 101, 46, 32, 84, 104, 101, 32, 115, 105, 122,
            101, 32, 111, 102, 32, 116, 104, 101, 32, 115, 119, 105, 116, 99, 104, 105, 110, 103, 32, 99,
            97, 112, 97, 99, 105, 116, 121, 32, 105, 115, 32, 100, 101, 116, 101, 114, 109, 105, 110, 101,
            100, 32, 98, 121, 32, 116, 104, 101, 32, 98, 105, 116, 32, 119, 105, 100, 116, 104, 32, 111,
            102, 32, 116, 104, 101, 32, 98, 117, 102, 102, 101, 114, 32, 40, 66, 85, 70, 70, 69, 82,
            41, 32, 97, 110, 100, 32, 105, 116, 115, 32, 98, 117, 115, 32, 102, 114, 101, 113, 117, 101,
            110, 99, 121, 46, 32, 84, 104, 97, 116, 32, 105, 115, 44, 32, 116, 104, 101, 32, 115, 119,
            105, 116, 99, 104, 105, 110, 103, 32, 99, 97, 112, 97, 99, 105, 116, 121, 32, 61, 32, 99,
            97, 99, 104, 101, 32, 98, 105, 116, 32, 119, 105, 100, 116, 104, 32, 42, 32, 99, 97, 99,
            104, 101, 32, 98, 117, 115, 32, 102, 114, 101, 113, 117, 101, 110, 99, 121, 32, 61, 32, 57,
            54, 32, 42, 32, 49, 51, 51, 32, 61, 32, 49, 50, 46, 56, 32, 71, 98, 112, 115, 32,
            72, 51, 67, 32, 104, 105, 103, 104, 45, 101, 110, 100, 32, 115, 119, 105, 116, 99, 104, 32,
            101, 120, 99, 104, 97, 110, 103, 101, 32, 99, 97, 112, 97, 99, 105, 116, 121, 32, 99, 97,
            110, 32, 98, 101, 32, 101, 113, 117, 97, 108, 32, 116, 111, 32, 116, 119, 105, 99, 101, 32,
            116, 104, 101, 32, 116, 111, 116, 97, 108, 32, 112, 111, 114, 116, 32, 99, 97, 112, 97, 99,
            105, 116, 121, 44, 32, 116, 111, 116, 97, 108, 32, 112, 111, 114, 116, 32, 99, 97, 112, 97,
            99, 105, 116, 121, 32, 61, 32, 50, 32, 42, 32, 40, 110, 32, 42, 32, 49, 48, 48, 77,
            98, 112, 115, 32, 43, 32, 109, 32, 42, 32, 49, 48, 48, 48, 77, 98, 112, 115, 41, 32,
            40, 32, 110, 58, 32, 105, 110, 100, 105, 99, 97, 116, 101, 115, 32, 116, 104, 97, 116, 32,
            116, 104, 101, 32, 115, 119, 105, 116, 99, 104, 32, 104, 97, 115, 32, 110, 32, 49, 48, 48,
            77, 32, 112, 111, 114, 116, 115, 44, 32, 109, 58, 32, 105, 110, 100, 105, 99, 97, 116, 101,
            115, 32, 116, 104, 97, 116, 32, 116, 104, 101, 32, 115, 119, 105, 116, 99, 104, 32, 104, 97,
            115, 32, 109, 32, 49, 48, 48, 48, 77, 32, 112, 111, 114, 116, 115, 46, 32, 10, 32, 51,
            46, 32, 84, 104, 101, 32, 112, 97, 99, 107, 101, 116, 32, 102, 111, 114, 119, 97, 114, 100,
            105, 110, 103, 32, 114, 97, 116, 101, 32, 102, 111, 114, 119, 97, 114, 100, 105, 110, 103, 32,
            99, 97, 112, 97, 98, 105, 108, 105, 116, 121, 32, 105, 115, 32, 109, 101, 97, 115, 117, 114,
            101, 100, 32, 98, 121, 32, 116, 104, 101, 32, 109, 105, 110, 105, 109, 117, 109, 32, 112, 97,
            99, 107, 101, 116, 32, 108, 101, 110, 103, 116, 104, 46, 32, 70, 111, 114, 32, 116, 104, 101,
            32, 69, 116, 104, 101, 114, 110, 101, 116, 32, 109, 105, 110, 105, 109, 117, 109, 32, 112, 97,
            99, 107, 101, 116, 32, 105, 115, 32, 54, 52, 66, 89, 84, 69, 44, 32, 112, 108, 117, 115,
            32, 116, 104, 101, 32, 102, 114, 97, 109, 101, 32, 111, 118, 101, 114, 104, 101, 97, 100, 32,
            50, 48, 66, 89, 84, 69, 46, 32, 84, 104, 101, 114, 101, 102, 111, 114, 101, 44, 32, 116,
            104, 101, 32, 109, 105, 110, 105, 109, 117, 109, 32, 112, 97, 99, 107, 97, 103, 101, 32, 105,
            115, 32, 56, 52, 66, 89, 84, 69, 46, 32, 70, 111, 114, 32, 97, 32, 102, 117, 108, 108,
            45, 100, 117, 112, 108, 101, 120, 32, 49, 48, 48, 48, 77, 98, 112, 115, 32, 105, 110, 116,
            101, 114, 102, 97, 99, 101, 32, 116, 111, 32, 97, 99, 104, 105, 101, 118, 101, 32, 108, 105,
            110, 101, 32, 115, 112, 101, 101, 100, 32, 114, 101, 113, 117, 105, 114, 101, 109, 101, 110, 116,
            115, 58, 32, 102, 111, 114, 119, 97, 114, 100, 105, 110, 103, 32, 99, 97, 112, 97, 99, 105,
            116, 121, 32, 61, 32, 49, 48, 48, 48, 77, 98, 112, 115, 32, 47, 32, 40, 40, 54, 52,
            32, 43, 32, 50, 48, 41, 32, 42, 32, 56, 98, 105, 116, 41, 32, 61, 32, 49, 46, 52,
            56, 56, 77, 112, 112, 115, 32, 102, 111, 114, 32, 97, 32, 102, 117, 108, 108, 45, 100, 117,
            112, 108, 101, 120, 32, 49, 48, 48, 77, 98, 112, 115, 32, 105, 110, 116, 101, 114, 102, 97,
            99, 101, 32, 116, 111, 32, 97, 99, 104, 105, 101, 118, 101, 32, 108, 105, 110, 101, 32, 115,
            112, 101, 101, 100, 32, 114, 101, 113, 117, 105, 114, 101, 109, 101, 110, 116, 115, 58, 32, 102,
            111, 114, 119, 97, 114, 100, 105, 110, 103, 32, 99, 97, 112, 97, 99, 105, 116, 121, 32, 61,
            32, 49, 48, 48, 77, 98, 112, 115, 32, 47, 32, 40, 40, 54, 52, 43, 50, 48, 41, 42,
            56, 98, 105, 116, 41, 61, 48, 46, 49, 52, 57, 77, 112, 112, 115, 32, 85, 110, 105, 116,
            58, 32, 77, 112, 112, 115, 32, 40, 77, 105, 108, 108, 105, 111, 110, 32, 112, 97, 99, 107,
            101, 116, 115, 32, 112, 101, 114, 32, 115, 101, 99, 111, 110, 100, 41, 32, 84, 104, 105, 115,
            32, 97, 114, 116, 105, 99, 108, 101, 32, 105, 115, 32, 102, 114, 111, 109, 32, 116, 104, 101,
            32, 34, 83, 110, 111, 119, 32, 77, 111, 111, 110, 32, 83, 116, 117, 100, 105, 111, 34, 32,
            98, 108, 111, 103, 44, 32, 112, 108, 101, 97, 115, 101, 32, 98, 101, 32, 115, 117, 114, 101,
            32, 116, 111, 32, 107, 101, 101, 112, 32, 116, 104, 105, 115, 32, 115, 111, 117, 114, 99, 101,
            32, 32, 104, 116, 116, 112, 58, 47, 47, 120, 117, 101, 121, 117, 101, 56, 46, 98, 108, 111,
            103, 46, 53, 49, 99, 116, 111, 46, 99, 111, 109, 47, 52, 54, 53, 48, 50, 52, 57, 47,
            49, 55, 54, 53, 55, 53, 48, 32, 32, 32, 72, 111, 119, 32, 105, 115, 32, 116, 104, 101,
            32, 98, 97, 99, 107, 112, 108, 97, 110, 101, 32, 98, 97, 110, 100, 119, 105, 100, 116, 104,
            44, 32, 115, 119, 105, 116, 99, 104, 105, 110, 103, 32, 99, 97, 112, 97, 99, 105, 116, 121,
            44, 32, 97, 110, 100, 32, 112, 97, 99, 107, 101, 116, 32, 102, 111, 114, 119, 97, 114, 100,
            105, 110, 103, 32, 114, 97, 116, 101, 32, 111, 102, 32, 116, 104, 101, 32, 115, 119, 105, 116,
            99, 104, 32, 99, 97, 108, 99, 117, 108, 97, 116, 101, 100, 63, 32, 70, 111, 114, 32, 116,
            104, 101, 32, 109, 97, 110, 117, 102, 97, 99, 116, 117, 114, 101, 114, 115, 44, 32, 116, 104,
            101, 32, 115, 116, 97, 110, 100, 97, 114, 100, 32, 105, 115, 32, 104, 105, 103, 104, 101, 114,
            32, 116, 104, 97, 110, 32, 116, 104, 101, 32, 108, 105, 110, 101, 32, 115, 112, 101, 101, 100,
            32, 102, 111, 114, 119, 97, 114, 100, 105, 110, 103, 46 >>),
         tags  |-> Str(<<>>),
         url   |-> Str(<<83, 119, 105, 116, 99, 104, 46, 104, 116, 109, 108>>)]),
    \* pages[6]: url 'Topics.html', text of 312 code units
    Obj([title |-> Str(<<84, 111, 112, 105, 99, 115>>),
         text  |-> Str(<<
            20491, 20154, 38651, 33126, 36575, 39636, 33287, 30828, 39636, 22522, 26412, 27010, 24565, 32, 10, 32, 32178, 36335, 22522, 26412,
            27010, 24565, 33287, 35373, 23450, 32, 10, 32, 87, 105, 110, 100, 111, 119, 115, 32, 49, 48, 32, 54,
            52, 32, 20301, 20803, 38568, 36523, 31243, 24335, 31995, 32113, 32, 10, 32, 104, 116, 116, 112, 58, 47, 47,
            109, 100, 101, 46, 116, 119, 32, 10, 32, 99, 109, 115, 105, 109, 100, 101, 32, 10, 32, 98,
            108, 111, 103, 103, 101, 114, 32, 10, 32, 71, 105, 116, 104, 117, 98, 32, 10, 32, 70, 111,
            115, 115, 105, 108, 32, 83, 67, 77, 32, 10, 32, 104, 116, 116, 112, 58, 47, 47, 102, 111,
            115, 115, 105, 108, 46, 107, 109, 111, 108, 46, 105, 110, 102, 111, 32, 10, 32, 104, 116, 116,
            112, 58, 47, 47, 109, 100, 101, 46, 116, 119, 47, 102, 111, 115, 103, 105, 116, 32, 10, 32,
            104, 116, 116, 112, 58, 47, 47, 102, 111, 115, 115, 105, 108, 46, 107, 109, 111, 108, 46, 105,
            110, 102, 111, 47, 102, 111, 115, 103, 105, 116, 47, 100, 111, 99, 47, 116, 114, 117, 110, 107,
            47, 105, 110, 100, 101, 120, 46, 104, 116, 109, 108, 32, 10, 32, 104, 116, 116, 112, 115, 58,
            47, 47, 102, 111, 115, 115, 105, 108, 46, 107, 109, 111, 108, 46, 105, 110, 102, 111, 47, 102,
            111, 115, 103, 105, 116, 47, 100, 111, 99, 47, 48, 102, 55, 98, 102, 53, 51, 97, 98, 57,
            47, 99, 111, 110, 116, 101, 110, 116, 47, 105, 110, 100, 101, 120, 46, 104, 116, 109, 108, 32,
            32, 32, 10, 32, 104, 116, 116, 112, 58, 47, 47, 106, 112, 109, 101, 46, 101, 110, 103, 46,
            110, 102, 117, 46, 101, 100, 117, 46, 116, 119, 32, 10 >>),
         tags  |-> Str(<<>>),
         url   |-> Str(<<84, 111, 112, 105, 99, 115, 46, 104, 116, 109, 108>>)]),
    \* pages[7]: url 'Topic 1.html', text of 3066 code units
    Obj([title |-> Str(<<84, 111, 112, 105, 99, 32, 49>>),
         text  |-> Str(<<
            35336, 31639, 27231, 27010, 35542, 35506, 31243, 22238, 39015, 32, 10, 32, 39318, 20808, 24517, 38920, 20808, 20102, 35299, 38651,
            33126, 36628, 21161, 35373, 35336, 23460, 20013, 30340, 32178, 36335, 35373, 23450, 58, 32, 10, 32, 30001, 26044, 19978, 35506,
            26178, 21508, 38651, 33126, 25505, 29992, 32020, 32, 73, 80, 118, 54, 32, 21332, 23450, 19978, 32178, 44, 32, 22240,
            27492, 21487, 20197, 23559, 32, 73, 80, 118, 52, 32, 32178, 36335, 21332, 23450, 21246, 36984, 31227, 38500, 44, 32,
            19988, 20197, 32, 68, 72, 67, 80, 54, 32, 21462, 24471, 32, 50, 48, 48, 49, 58, 50, 56, 56,
            58, 54, 48, 48, 52, 58, 49, 55, 58, 120, 120, 120, 120, 32, 26684, 24335, 30340, 32, 73, 80,
            118, 54, 32, 32178, 36335, 20301, 22336, 44, 32, 24799, 38656, 33258, 34892, 35373, 23450, 32, 68, 78, 83, 32,
            20282, 26381, 22120, 46, 32, 21487, 20197, 36984, 25799, 27231, 26800, 35373, 35336, 24037, 31243, 31995, 30340, 32, 68, 78,
            83, 32, 20282, 26381, 22120, 32, 50, 48, 48, 49, 58, 50, 56, 56, 58, 54, 48, 48, 52, 58,
            49, 55, 58, 58, 51, 32, 25110, 20013, 33775, 38651, 20449, 32, 68, 78, 83, 32, 20282, 26381, 22120, 32,
            50, 48, 48, 49, 58, 98, 48, 48, 48, 58, 49, 54, 56, 58, 58, 49, 32, 10, 32, 10,
            32, 25509, 33879, 23416, 32722, 22914, 20309, 21033, 29992, 21487, 25884, 24335, 32, 83, 104, 97, 114, 101, 88, 32,
            37636, 35069, 38651, 33126, 25805, 20316, 30059, 38754, 27969, 31243, 44, 32, 23384, 28858, 32, 109, 112, 52, 32, 26684,
            24335, 24460, 19978, 20659, 21040, 32, 64, 103, 109, 32, 24115, 34399, 23565, 25033, 30340, 32, 89, 111, 117, 116,
            117, 98, 101, 46, 32, 26412, 35506, 31243, 24314, 35696, 21508, 23416, 21729, 23559, 27599, 36913, 26681, 25818, 35506, 31243,
            36914, 24230, 25152, 25805, 20316, 30340, 27969, 31243, 37636, 35069, 25104, 32, 109, 112, 52, 32, 24433, 29255, 23884, 20837,
            20491, 20154, 30340, 32178, 35468, 33287, 32178, 38913, 20013, 46, 32, 10, 32, 10, 32, 25509, 33879, 23416, 32722, 22914,
            20309, 21033, 29992, 32, 64, 103, 109, 32, 24115, 34399, 24314, 31435, 20998, 32068, 32, 66, 108, 111, 103, 103,
            101, 114, 46, 32, 23436, 25104, 24460, 21508, 20998, 32068, 30340, 32178, 35468, 36899, 32080, 22914, 19979, 58, 32, 10,
            32, 104, 116, 116, 112, 115, 58, 47, 47, 119, 99, 109, 106, 50, 48, 50, 49, 103, 49, 46,
            98, 108, 111, 103, 115, 112, 111, 116, 46, 99, 111, 109, 32, 10, 32, 104, 116, 116, 112, 115,
            58, 47, 47, 119, 99, 109, 106, 50, 48, 50, 49, 103, 50, 46, 98, 108, 111, 103, 115, 112,
            111, 116, 46, 99, 111, 109, 32, 10, 32, 104, 116, 116, 112, 115, 58, 47, 47, 119, 99, 109,
            106, 50, 48, 50, 49, 103, 51, 46, 98, 108, 111, 103, 115, 112, 111, 116, 46, 99, 111, 109,
            32, 10, 32, 104, 116, 116, 112, 115, 58, 47, 47, 119, 99, 109, 106, 50, 48, 50, 49, 103,
            52, 46, 98, 108, 111, 103, 115, 112, 111, 116, 46, 99, 111, 109, 32, 10, 32, 104, 116, 116,
            112, 115, 58, 47, 47, 119, 99, 109, 106, 50, 48, 50, 49, 103, 53, 46, 98, 108, 111, 103,
            115, 112, 111, 116, 46, 99, 111, 109, 32, 10, 32, 104, 116, 116, 112, 115, 58, 47, 47, 119,
            99, 109, 106, 50, 48, 50, 49, 103, 54, 46, 98, 108, 111, 103, 115, 112, 111, 116, 46, 99,
            111, 109, 32, 10, 32, 104, 116, 116, 112, 115, 58, 47, 47, 119, 99, 109, 106, 50, 48, 50,
            49, 103, 55, 46, 98, 108, 111, 103, 115, 112, 111, 116, 46, 99, 111, 109, 32, 10, 32, 10,
            32, 21508, 32068, 32068, 38263, 23436, 25104, 20998, 32068, 32, 66, 108, 111, 103, 103, 101, 114, 32, 32178, 35468,
            24314, 31435, 24460, 44, 32, 21487, 21033, 29992, 35373, 23450, 36984, 38917, 23559, 21508, 32068, 21729, 35373, 28858, 21487, 22312,
            20998, 32068, 32178, 35468, 30332, 20296, 25991, 31456, 30340, 21332, 21516, 31649, 29702, 32773, 25110, 21332, 21516, 20316, 32773, 46,
            32, 10, 32, 10, 32, 25509, 33879, 23416, 32722, 22914, 20309, 36879, 36942, 32, 89, 111, 117, 116, 117, 98,
            101, 32, 24433, 29255, 20013, 20998, 20139, 21151, 33021, 20013, 30340, 23884, 20837, 36984, 25799, 21462, 24471, 29305, 23450, 24433,
            29255, 30340, 32, 105, 102, 114, 97, 109, 101, 32, 23884, 20837, 32, 104, 116, 109, 108, 32, 24460, 44,
            32, 21487, 23559, 21508, 32068, 21729, 25152, 35069, 20316, 30340, 38651, 33126, 25805, 20316, 24433, 29255, 23884, 20837, 20491, 20154,
            32178, 31449, 25110, 20998, 32068, 32178, 35468, 20013, 46, 32, 10, 32, 10, 32, 27599, 19968, 20301, 23416, 21729, 30331,
            20837, 23416, 26657, 37197, 30332, 30340, 32, 71, 109, 97, 105, 108, 32, 24115, 34399, 24460, 44, 32, 33267, 32,
            32, 104, 116, 116, 112, 115, 58, 47, 47, 119, 119, 119, 46, 98, 108, 111, 103, 103, 101, 114,
            46, 99, 111, 109, 32, 32, 24314, 31435, 19968, 20491, 32178, 35468, 44, 32, 20006, 23559, 19978, 23416, 26399, 35336,
            31639, 27231, 35506, 31243, 30340, 20839, 23481, 25688, 35201, 25972, 29702, 28858, 32, 32, 66, 108, 111, 103, 103, 101,
            114, 32, 32, 32178, 35468, 20839, 23481, 46, 32, 21487, 20197, 25353, 29031, 27599, 19968, 36913, 30340, 25945, 23416, 20839,
            23481, 25972, 29702, 28858, 32178, 35468, 44, 32, 25110, 32773, 26681, 25818, 25945, 23416, 20027, 38988, 20839, 23481, 25972, 29702,
            28858, 32178, 35468, 20839, 23481, 46, 32, 10, 32, 35531, 21839, 58, 32, 10, 32, 24050, 30693, 32, 32, 20462,
            35506, 23416, 21729, 21517, 21934, 32, 32, 40, 32, 110, 102, 117, 108, 105, 115, 116, 32, 31243, 24335, 30908,
            32, 41, 32, 40, 32, 24478, 25945, 21209, 20027, 27231, 26597, 35426, 36039, 26009, 32, 41, 32, 21487, 20197, 21462,
            24471, 20462, 35506, 23416, 21729, 21517, 21934, 44, 32, 26159, 21542, 21487, 20197, 29992, 26044, 21462, 24471, 21508, 23416, 21729,
            30340, 20491, 20154, 32, 32, 66, 108, 111, 103, 103, 101, 114, 32, 32, 36899, 32080, 63, 32, 10, 32,
            25505, 20154, 24037, 26041, 24335, 21855, 21205, 32, 69, 116, 104, 101, 114, 99, 97, 108, 99, 32, 32178, 38555,
            34920, 21934, 44, 32, 24478, 20462, 35506, 23416, 21729, 21517, 21934, 20013, 35079, 35069, 23416, 34399, 34892, 36039, 26009, 44,
            32, 28982, 24460, 22312, 32, 32, 104, 116, 116, 112, 115, 58, 47, 47, 103, 105, 116, 116, 101, 114,
            46, 105, 109, 47, 109, 100, 101, 99, 111, 117, 114, 115, 101, 47, 119, 99, 109, 106, 50, 48,
            50, 49, 32, 32, 20844, 20296, 32178, 38555, 34920, 21934, 36899, 32080, 44, 32, 35731, 21508, 23416, 21729, 20381, 29031,
            23416, 34399, 22635, 20837, 20491, 20154, 32, 66, 108, 111, 103, 103, 101, 114, 32, 32178, 35468, 36899, 32080, 24460,
            44, 32, 20877, 35079, 35069, 36039, 26009, 44, 32, 20006, 35373, 27861, 36681, 28858, 32, 72, 84, 77, 76, 32,
            65, 110, 99, 104, 111, 114, 32, 36899, 32080, 46, 32, 10, 32, 19978, 36848, 27969, 31243, 33021, 19981, 33021,
            25505, 26356, 26041, 20415, 30340, 27969, 31243, 36914, 34892, 32, 40, 28187, 23569, 20154, 24037, 35079, 35069, 33287, 34389, 29702,
            21487, 33021, 29986, 29983, 30340, 37679, 35492, 41, 63, 32, 10, 32, 104, 116, 116, 112, 58, 47, 47, 109,
            100, 101, 46, 116, 119, 47, 99, 97, 100, 50, 48, 50, 48, 47, 99, 111, 110, 116, 101, 110,
            116, 47, 69, 116, 104, 101, 114, 99, 97, 108, 99, 46, 104, 116, 109, 108, 32, 10, 32, 104,
            116, 116, 112, 115, 58, 47, 47, 103, 105, 116, 104, 117, 98, 46, 99, 111, 109, 47, 97, 117,
            100, 114, 101, 121, 116, 47, 101, 116, 104, 101, 114, 99, 97, 108, 99, 47, 98, 108, 111, 98,
            47, 109, 97, 115, 116, 101, 114, 47, 65, 80, 73, 46, 109, 100, 32, 10, 32, 104, 116, 116,
            112, 115, 58, 47, 47, 112, 121, 112, 105, 46, 111, 114, 103, 47, 112, 114, 111, 106, 101, 99,
            116, 47, 101, 116, 104, 101, 114, 99, 97, 108, 99, 45, 112, 121, 116, 104, 111, 110, 47, 32,
            10, 32, 104, 116, 116, 112, 58, 47, 47, 109, 100, 101, 46, 116, 119, 47, 99, 100, 50, 48,
            50, 49, 47, 99, 111, 110, 116, 101, 110, 116, 47, 84, 111, 112, 105, 99, 115, 46, 104, 116,
            109, 108, 32, 10, 32, 66, 108, 111, 103, 103, 101, 114, 32, 65, 80, 73, 32, 32, 33021, 22816,
            20570, 29978, 40636, 63, 32, 10, 32, 30456, 38364, 25216, 34899, 58, 32, 10, 32, 80, 121, 116, 104, 111,
            110, 32, 32, 45, 32, 26371, 32232, 23531, 22522, 26412, 30340, 32, 80, 121, 116, 104, 111, 110, 32, 31243,
            24335, 32, 10, 32, 104, 116, 116, 112, 58, 47, 47, 109, 100, 101, 46, 116, 119, 47, 99, 112,
            50, 48, 50, 48, 32, 10, 32, 72, 84, 77, 76, 32, 32, 45, 32, 20102, 35299, 36229, 25991, 20214,
            30456, 38364, 27161, 35387, 29992, 27861, 32, 10, 32, 74, 97, 115, 99, 114, 105, 112, 116, 32, 32, 45,
            32, 20102, 35299, 32, 74, 97, 118, 97, 115, 99, 114, 105, 112, 116, 32, 22914, 20309, 33287, 32, 72,
            84, 77, 76, 32, 32080, 21512, 25033, 29992, 63, 32, 10, 32, 70, 108, 97, 115, 107, 32, 32, 45,
            32, 20102, 35299, 22914, 20309, 20351, 29992, 32, 70, 108, 97, 115, 107, 32, 32178, 38555, 26694, 26550, 63, 32,
            10, 32, 98, 115, 52, 32, 32, 45, 32, 20102, 35299, 22914, 20309, 36879, 36942, 32, 80, 121, 116, 104,
            111, 110, 32, 30340, 32, 98, 101, 97, 117, 116, 105, 102, 117, 108, 115, 111, 117, 112, 32, 27169,
            32068, 35299, 35712, 32, 72, 84, 77, 76, 32, 21462, 29992, 32178, 38913, 19978, 30340, 30456, 38364, 36039, 26009, 63,
            32, 10, 32, 65, 74, 65, 88, 32, 32, 45, 32, 20102, 35299, 32, 65, 74, 65, 88, 32, 22914,
            20309, 36939, 20316, 63, 32, 22914, 20309, 25033, 29992, 63, 32, 10, 32, 72, 101, 114, 111, 107, 117, 32,
            32, 45, 32, 20102, 35299, 22914, 20309, 23559, 32178, 38555, 31243, 24335, 37096, 32626, 21040, 32, 72, 101, 114, 111,
            107, 117, 32, 38642, 31471, 31995, 32113, 63, 32, 10, 32, 104, 116, 116, 112, 58, 47, 47, 109, 100,
            101, 46, 116, 119, 47, 99, 112, 50, 48, 50, 48, 47, 99, 111, 110, 116, 101, 110, 116, 47,
            72, 101, 114, 111, 107, 117, 46, 104, 116, 109, 108, 32, 10, 32, 104, 116, 116, 112, 58, 47,
            47, 109, 100, 101, 46, 116, 119, 47, 99, 112, 50, 48, 50, 48, 47, 99, 111, 110, 116, 101,
            110, 116, 47, 115, 99, 105, 115, 115, 111, 114, 45, 114, 111, 99, 107, 45, 112, 97, 112, 101,
            114, 46, 104, 116, 109, 108, 32, 10, 32, 25033, 35442, 35201, 22914, 20309, 23559, 36984, 35506, 23416, 21729, 30340,
            20491, 20154, 32, 32, 66, 108, 111, 103, 103, 101, 114, 32, 32, 32178, 35468, 36899, 32080, 25972, 29702, 32,
            40, 23884, 20837, 41, 22312, 36889, 20491, 38913, 38754, 63, 32, 10, 32, 50, 48, 49, 48, 95, 66, 101,
            103, 105, 110, 110, 105, 110, 103, 32, 71, 111, 111, 103, 108, 101, 32, 66, 108, 111, 103, 103,
            101, 114, 46, 112, 100, 102, 32, 10, 32, 32178, 38555, 20839, 23481, 31649, 29702, 35506, 31243, 30446, 27161, 58,
            32, 10, 32, 31934, 23494, 27231, 26800, 35373, 35336, 24037, 31243, 24107, 21487, 20197, 21033, 29992, 20855, 29256, 27425, 33287,
            27511, 31243, 31649, 29702, 31995, 32113, 44, 32, 38263, 26399, 35352, 37636, 23416, 32722, 33287, 30740, 31350, 32080, 26524, 46,
            32, 10, 32, 21033, 29992, 32178, 38555, 27969, 31243, 23637, 31034, 29986, 21697, 35373, 35336, 25110, 35069, 36896, 27969, 31243,
            32, 10, 32, 104, 116, 116, 112, 58, 47, 47, 109, 100, 101, 46, 116, 119, 47, 118, 105, 114,
            116, 117, 97, 108, 107, 111, 115, 115, 101, 108, 47, 32, 32, 32, 10, 32, 32972, 26223, 30693, 35672,
            58, 32, 10, 32, 160, 33521, 25991, 38321, 35712, 33021, 21147, 37325, 19981, 37325, 35201, 63, 32, 10, 32, 20309,
            35586, 32, 32, 87, 111, 114, 108, 100, 32, 87, 105, 100, 101, 32, 87, 101, 98, 32, 63, 32,
            40, 32, 20840, 29699, 36039, 35338, 32178, 32, 44, 32, 21448, 31281, 28858, 33836, 32173, 32178, 41, 32, 10, 32,
            28858, 20160, 40636, 32, 32, 104, 116, 116, 112, 115, 58, 47, 47, 122, 104, 46, 119, 105, 107, 105,
            112, 101, 100, 105, 97, 46, 111, 114, 103, 47, 119, 105, 107, 105, 47, 37, 69, 52, 37, 66,
            56, 37, 56, 55, 37, 69, 55, 37, 66, 66, 37, 66, 52, 37, 69, 55, 37, 66, 68, 37,
            57, 49, 32, 32, 20854, 23526, 23601, 26159, 32, 104, 116, 116, 112, 115, 58, 47, 47, 122, 104, 46,
            119, 105, 107, 105, 112, 101, 100, 105, 97, 46, 111, 114, 103, 47, 119, 105, 107, 105, 47, 33836,
            32173, 32178, 32, 10, 32, 104, 116, 109, 108, 32, 33287, 32, 87, 87, 87, 32, 30340, 38364, 20418, 28858,
            20309, 65311, 32, 10, 32, 28858, 20160, 40636, 22312, 19978, 21015, 20013, 25991, 29256, 30340, 33836, 32173, 32178, 35498, 26126,
            38913, 38754, 44, 32, 26371, 34987, 27161, 35387, 34, 27492, 26781, 30446, 32763, 35695, 21697, 36074, 19981, 20339, 34, 63,
            32, 33521, 25991, 35498, 26126, 38913, 28858, 20309, 27794, 26377, 36889, 27171, 30340, 21839, 38988, 63, 32, 10, 32, 38651,
            33126, 36575, 30828, 39636, 25033, 29992, 33021, 21147, 37325, 19981, 37325, 35201, 63, 32, 10, 32, 35201, 23559, 21508, 23416,
            21729, 30340, 32, 32, 66, 108, 111, 103, 103, 101, 114, 32, 32, 32178, 35468, 36899, 32080, 25918, 20837, 36889,
            20491, 38913, 38754, 44, 32, 38500, 20102, 25163, 21205, 19968, 19968, 32, 107, 101, 121, 32, 105, 110, 32, 32232,
            36655, 22806, 44, 32, 36996, 26377, 27794, 26377, 20854, 20182, 36611, 26377, 25928, 29575, 30340, 20570, 27861, 63, 32, 10,
            32, 29992, 32, 32, 104, 116, 116, 112, 115, 58, 47, 47, 101, 116, 104, 101, 114, 99, 97, 108,
            99, 46, 110, 101, 116, 47, 32, 32, 25353, 29031, 23416, 34399, 27425, 24207, 21462, 24471, 21508, 23416, 21729, 30340,
            32, 32, 66, 108, 111, 103, 103, 101, 114, 32, 32, 32178, 35468, 36899, 32080, 24460, 44, 32, 23384, 25104,
            27284, 26696, 44, 32, 28982, 24460, 20877, 32232, 23531, 31243, 24335, 35712, 21462, 21508, 23416, 21729, 30340, 32178, 35468, 36899,
            32080, 24460, 44, 32, 24314, 31435, 25152, 38656, 30340, 32, 104, 116, 109, 108, 32, 36229, 25991, 20214, 26684, 24335,
            20839, 23481, 24460, 44, 32, 30452, 25509, 24046, 30064, 26412, 38913, 38754, 29305, 23450, 20301, 32622, 24460, 23384, 27284, 46,
            32, 10, 32, 23559, 26412, 32178, 35468, 35373, 23450, 28858, 21487, 20844, 38283, 32232, 36655, 30340, 21205, 24907, 32178, 38913,
            27169, 24335, 44, 32, 35731, 21508, 23416, 21729, 33258, 34892, 30331, 20837, 23559, 32178, 35468, 36899, 32080, 36664, 20837, 24460,
            44, 32, 20197, 34, 21332, 21516, 32232, 36655, 27169, 24335, 34, 23384, 27284, 24460, 36914, 34892, 27298, 26597, 33287, 25972,
            29702, 46, 32, 40, 27492, 19968, 26041, 26696, 25152, 24471, 21040, 30340, 32080, 26524, 44, 32, 33287, 19978, 21015, 20854,
            20182, 26041, 27861, 27604, 36611, 26377, 20309, 20778, 40670, 25110, 32570, 40670, 63, 41, 32, 10, 32, 36996, 26377, 27794,
            26377, 20854, 20182, 26356, 26377, 25928, 29575, 30340, 20570, 27861, 63, 32, 10, 32, 35696, 38988, 35342, 35542, 58, 32,
            10, 32, 20551, 22914, 19968, 20301, 31934, 23494, 27231, 26800, 24037, 31243, 24107, 21482, 33021, 25509, 25910, 20013, 25991, 36039,
            26009, 44, 32, 38754, 23565, 34, 32763, 35695, 21697, 36074, 19981, 20339, 34, 30340, 33836, 32173, 32178, 34, 35498, 26126,
            20839, 23481, 44, 32, 26159, 21542, 25033, 35442, 26377, 22240, 25033, 23565, 31574, 63, 32, 10, 32, 75, 77, 79,
            76, 97, 98, 32, 40723, 21237, 24180, 36629, 20154, 20760, 24555, 32763, 36234, 27243, 22312, 38754, 21069, 30340, 32, 19977,
            38754, 29254, 29702, 35542, 32, 46, 32, 10, 32, 20551, 22914, 24819, 35201, 21033, 29992, 31243, 24335, 26041, 27861, 35299,
            27770, 38651, 33126, 36575, 30828, 39636, 25033, 29992, 36942, 31243, 25152, 30896, 21040, 30340, 21839, 38988, 63, 32, 35442, 20855,
            20633, 21738, 20123, 22522, 26412, 26781, 20214, 63, 32, 10, 32, 20320, 23565, 38651, 33126, 33287, 32178, 36335, 30340, 36575,
            30828, 39636, 37197, 32622, 21450, 25033, 29992, 26377, 22810, 23569, 20102, 35299, 63, 32, 10, 32, 20320, 26159, 21542, 20855,
            20633, 22522, 26412, 30340, 33521, 25991, 38321, 35712, 33021, 21147, 63, 32, 20320, 33021, 22816, 19981, 30475, 37749, 30436, 36914,
            34892, 33521, 25991, 33287, 20013, 25991, 25171, 23383, 21966, 63, 32, 25105, 25033, 35442, 35201, 23416, 32722, 21738, 19968, 31278,
            25110, 21738, 24190, 31278, 20013, 25991, 36664, 20837, 27861, 63, 32, 25110, 32773, 27492, 24460, 23436, 20840, 20351, 29992, 35486,
            38899, 36681, 25991, 23383, 30340, 26041, 24335, 36664, 20837, 63, 32, 10, 32, 25130, 33267, 30446, 21069, 21482, 19978, 36942,
            35336, 31639, 27231, 27010, 35542, 44, 32, 32780, 19988, 19979, 23416, 26399, 25165, 19978, 35336, 31639, 27231, 31243, 24335, 44,
            32, 25105, 20497, 26377, 33021, 21147, 29694, 22312, 23601, 38283, 22987, 23416, 32722, 22914, 20309, 23531, 38651, 33126, 31243, 24335,
            21966, 63, 32, 10, 32, 38651, 33126, 33287, 32178, 36335, 36575, 30828, 39636, 26159, 29694, 20195, 20154, 29983, 27963, 20013,
            19981, 21487, 25110, 32570, 30340, 24037, 20855, 44, 32, 21482, 35201, 30906, 35469, 25976, 20301, 26041, 27861, 33021, 22816, 26377,
            25928, 35299, 27770, 21839, 38988, 44, 32, 20219, 20309, 20154, 37117, 21487, 20197, 22312, 20219, 19968, 26178, 38291, 40670, 35373,
            27861, 36879, 36942, 23458, 35069, 21270, 30340, 36575, 30828, 39636, 26041, 26696, 32, 40, 33258, 34892, 32232, 23531, 25110, 20462,
            25913, 26082, 26377, 26041, 26696, 41, 32, 35299, 27770, 25152, 38754, 33256, 30340, 21839, 38988, 46, 32, 10, 32, 20102,
            35299, 32, 87, 105, 110, 100, 111, 119, 115, 32, 49, 48, 32, 54, 52, 32, 20301, 20803, 22522, 26412,
            25805, 20316, 26041, 24335, 32, 10, 32, 33258, 34892, 22312, 32, 87, 105, 110, 100, 111, 119, 115, 32, 49,
            48, 32, 54, 52, 32, 20301, 20803, 20013, 24314, 31435, 21487, 25884, 31243, 24335, 29872, 22659, 32, 40, 87, 104,
            121, 63, 41, 32, 10, 32, 33258, 34892, 22312, 32, 87, 105, 110, 100, 111, 119, 115, 32, 49, 48,
            32, 54, 52, 32, 20301, 20803, 29872, 22659, 20013, 24314, 31435, 32, 85, 98, 117, 110, 116, 117, 32, 34395,
            25836, 32, 86, 105, 114, 116, 117, 97, 108, 98, 111, 120, 32, 20027, 27231, 44, 32, 25110, 32773, 36879,
            36942, 32, 32, 87, 83, 76, 32, 32, 20102, 35299, 32, 76, 105, 110, 117, 120, 32, 31995, 32113, 25033,
            29992, 26041, 27861, 46, 32, 10 >>),
         tags  |-> Str(<<>>),
         url   |-> Str(<<84, 111, 112, 105, 99, 32, 49, 46, 104, 116, 109, 108>>)]),
    \* pages[8]: url 'W2-W3.html', text of 520 code units
    Obj([title |-> Str(<<87, 50, 45, 87, 51>>),
         text  |-> Str(<<
            35498, 26126, 33287, 27231, 26800, 35373, 35336, 24037, 31243, 31995, 32156, 19968, 39208, 20843, 27155, 38651, 33126, 36628, 21161, 35373,
            35336, 23460, 38651, 33126, 32178, 36335, 35373, 23450, 26377, 38364, 30340, 27493, 39519, 32, 10, 32, 10, 32, 100, 101,
            109, 111, 32, 22914, 20309, 21033, 29992, 32, 103, 105, 116, 32, 23559, 36960, 31471, 32, 32, 104, 116, 116,
            112, 115, 58, 47, 47, 103, 105, 116, 104, 117, 98, 46, 99, 111, 109, 47, 109, 100, 101, 99,
            111, 117, 114, 115, 101, 47, 119, 99, 109, 106, 50, 48, 50, 49, 32, 32, 20489, 20786, 32, 103,
            105, 116, 32, 99, 108, 111, 110, 101, 32, 45, 45, 114, 101, 99, 117, 114, 115, 101, 45, 115,
            117, 98, 109, 111, 100, 117, 108, 101, 115, 32, 85, 82, 76, 32, 21040, 36817, 31471, 24460, 44, 32,
            21033, 29992, 32, 80, 121, 116, 104, 111, 110, 32, 21855, 21205, 32, 99, 109, 115, 105, 109, 100, 101,
            32, 32178, 38555, 20839, 23481, 31649, 29702, 31995, 32113, 30340, 21205, 24907, 32178, 31449, 44, 32, 21152, 20837, 31532, 19977,
            38542, 30340, 32, 87, 50, 32, 38913, 38754, 24460, 44, 32, 23559, 19978, 19968, 20491, 24433, 29255, 23884, 20837, 24460,
            44, 32, 20197, 32, 103, 105, 116, 32, 97, 100, 100, 44, 32, 99, 111, 109, 109, 105, 116, 32,
            21450, 32, 112, 117, 115, 104, 32, 25226, 25913, 29256, 30340, 20839, 23481, 26032, 22686, 25552, 20132, 25512, 36865, 33267,
            32, 71, 105, 116, 104, 117, 98, 32, 20489, 20786, 44, 32, 24471, 21040, 25913, 29256, 24460, 30340, 32, 32,
            104, 116, 116, 112, 58, 47, 47, 109, 100, 101, 46, 116, 119, 47, 119, 99, 109, 106, 50, 48,
            50, 49, 47, 99, 111, 110, 116, 101, 110, 116, 47, 87, 50, 46, 104, 116, 109, 108, 32, 10,
            32, 10, 32, 35498, 26126, 22914, 20309, 24478, 32, 32, 104, 116, 116, 112, 58, 47, 47, 97, 46, 107,
            109, 111, 108, 46, 105, 110, 102, 111, 58, 56, 56, 32, 32, 19979, 36617, 21487, 25884, 31243, 24335, 31995,
            32113, 32, 107, 109, 111, 108, 50, 48, 50, 49, 95, 115, 112, 114, 105, 110, 103, 95, 118, 51,
            46, 55, 122, 44, 32, 21033, 29992, 32, 32, 104, 116, 116, 112, 115, 58, 47, 47, 119, 119, 119,
            46, 55, 45, 122, 105, 112, 46, 111, 114, 103, 32, 32, 35299, 38283, 22739, 32302, 24460, 44, 32, 21363,
            21487, 29992, 32, 115, 116, 97, 114, 116, 95, 105, 112, 118, 54, 46, 98, 97, 116, 32, 21855, 21205,
            31995, 32113, 44, 32, 20006, 31034, 31684, 22914, 20309, 22519, 34892, 32, 80, 121, 116, 104, 111, 110, 32, 31243,
            24335, 46, 32, 10, 32, 10, 32, 35498, 26126, 22914, 20309, 21033, 29992, 32, 32, 104, 116, 116, 112, 115,
            58, 47, 47, 103, 105, 116, 104, 117, 98, 46, 99, 111, 109, 47, 109, 100, 101, 99, 111, 117,
            114, 115, 101, 47, 99, 109, 115, 116, 101, 109, 112, 108, 97, 116, 101, 32, 32, 24314, 31435, 33258,
            24049, 30340, 32, 24115, 34399, 46, 103, 105, 116, 104, 117, 98, 46, 105, 111, 32, 32178, 31449, 32, 10 >>),
         tags  |-> Str(<<>>),
         url   |-> Str(<<87, 50, 45, 87, 51, 46, 104, 116, 109, 108>>)]),
    \* pages[9]: url 'W4.html', text of 907 code units
    Obj([title |-> Str(<<87, 52>>),
         text  |-> Str(<<
            25130, 33267, 30446, 21069, 28858, 27490, 44, 32, 25105, 20497, 24050, 32147, 20171, 32057, 22914, 20309, 21033, 29992, 23416, 26657,
            25152, 37197, 30332, 30340, 32, 64, 103, 109, 32, 38651, 23376, 37109, 20214, 24115, 34399, 24314, 31435, 22312, 32, 32,
            104, 116, 116, 112, 115, 58, 47, 47, 119, 119, 119, 46, 98, 108, 111, 103, 103, 101, 114, 46,
            99, 111, 109, 32, 32, 30340, 32, 20491, 20154, 32178, 35468, 32, 20197, 21450, 32, 20998, 32068, 32178, 35468, 32,
            44, 32, 20063, 35498, 26126, 22914, 20309, 22312, 32, 32, 104, 116, 116, 112, 115, 58, 47, 47, 103, 105,
            116, 104, 117, 98, 46, 99, 111, 109, 47, 32, 32, 21033, 29992, 32, 32, 24115, 34399, 46, 103, 105,
            116, 104, 117, 98, 46, 105, 111, 32, 32, 20489, 20786, 24314, 31435, 32, 20491, 20154, 32178, 31449, 32, 44,
            32, 25509, 19979, 20358, 23559, 20197, 27599, 32068, 20845, 20154, 28858, 19968, 20491, 21934, 20301, 36914, 34892, 32178, 38555, 20839,
            23481, 30340, 38321, 35712, 20197, 21450, 25972, 29702, 44, 32, 20197, 19979, 28858, 31532, 20061, 36913, 26399, 20013, 32771, 20043,
            21069, 44, 32, 24076, 26395, 21508, 32068, 23436, 25104, 38321, 35712, 44, 32, 35342, 35542, 20006, 25972, 29702, 30340, 30456,
            38364, 20839, 23481, 58, 32, 10, 32, 10, 32, 33287, 35336, 31639, 27231, 27010, 35542, 33287, 38651, 33126, 32178, 36335,
            26377, 38364, 30340, 20839, 23481, 25972, 29702, 32, 45, 32, 32, 73, 110, 116, 114, 111, 32, 116, 111, 32,
            99, 111, 109, 112, 117, 116, 101, 114, 49, 32, 44, 32, 32, 50, 32, 44, 32, 32, 99, 111,
            109, 112, 117, 116, 101, 114, 32, 110, 101, 116, 119, 111, 114, 107, 115, 32, 44, 32, 40, 32,
            110, 116, 117, 32, 101, 101, 32, 99, 111, 117, 114, 115, 101, 32, 41, 32, 10, 32, 33287, 32,
            71, 111, 111, 103, 108, 101, 32, 30332, 23637, 26377, 38364, 30340, 20839, 23481, 25972, 29702, 32, 45, 32, 26377,
            38364, 32, 71, 111, 111, 103, 108, 101, 32, 30340, 30332, 23637, 27511, 21490, 58, 32, 32, 104, 116, 116,
            112, 115, 58, 47, 47, 101, 110, 46, 119, 105, 107, 105, 112, 101, 100, 105, 97, 46, 111, 114,
            103, 47, 119, 105, 107, 105, 47, 71, 111, 111, 103, 108, 101, 32, 44, 32, 35531, 21508, 32068, 32068,
            21729, 20180, 32048, 38321, 35712, 36889, 20221, 36039, 26009, 24460, 44, 32, 23559, 35469, 28858, 37325, 40670, 30340, 36039, 26009,
            25918, 20837, 21508, 23416, 21729, 30340, 32, 98, 108, 111, 103, 103, 101, 114, 32, 32178, 35468, 20197, 21450, 20491,
            20154, 32178, 31449, 20013, 46, 32, 10, 32, 104, 116, 116, 112, 115, 58, 47, 47, 100, 101, 118, 101,
            108, 111, 112, 101, 114, 115, 46, 103, 111, 111, 103, 108, 101, 46, 99, 111, 109, 47, 98, 108,
            111, 103, 103, 101, 114, 32, 160, 32, 10, 32, 10, 32, 35498, 26126, 22914, 20309, 22312, 32, 71, 105,
            116, 104, 117, 98, 32, 24115, 34399, 19979, 21033, 29992, 32, 34, 24115, 34399, 46, 103, 105, 116, 104, 117,
            98, 46, 105, 111, 34, 32, 20489, 20786, 24314, 31435, 32178, 38913, 46, 32, 22522, 26412, 30340, 24314, 32622, 27969,
            31243, 28858, 58, 32, 10, 32, 10, 32, 30331, 20837, 32, 71, 105, 116, 104, 117, 98, 32, 24115, 34399,
            32, 10, 32, 36899, 32218, 33267, 32, 32, 104, 116, 116, 112, 115, 58, 47, 47, 103, 105, 116, 104,
            117, 98, 46, 99, 111, 109, 47, 109, 100, 101, 99, 111, 117, 114, 115, 101, 47, 99, 109, 115,
            116, 101, 109, 112, 108, 97, 116, 101, 32, 32, 24460, 40670, 25802, 32, 85, 115, 101, 32, 116, 104,
            105, 115, 32, 116, 101, 109, 112, 108, 97, 116, 101, 44, 32, 20197, 27492, 20489, 20786, 20839, 23481, 20316,
            28858, 27171, 26495, 44, 32, 25152, 24314, 31435, 30340, 20489, 20786, 21363, 21487, 36879, 36942, 32, 71, 105, 116, 104,
            117, 98, 32, 80, 97, 103, 101, 115, 32, 30340, 26550, 27083, 44, 32, 29986, 29983, 23565, 25033, 30340, 20491,
            20154, 32178, 38913, 32, 10, 32, 20551, 22914, 20877, 20351, 29992, 32, 66, 114, 121, 116, 104, 111, 110, 32,
            21487, 20197, 22312, 32178, 38913, 20013, 24314, 31435, 19968, 20491, 22522, 26412, 30340, 32178, 38555, 32, 80, 121, 116, 104,
            111, 110, 32, 32244, 32722, 38913, 38754, 32, 10, 32, 10, 32, 10, 32, 87, 49, 48, 45, 87, 49,
            56, 32, 10, 32, 10, 32, 32178, 38555, 20839, 23481, 31649, 29702, 25033, 29992, 32, 73, 32, 45, 32, 32,
            66, 114, 121, 116, 104, 111, 110, 32, 44, 32, 32, 71, 108, 111, 119, 115, 114, 105, 112, 116,
            32, 10, 32, 32178, 38555, 20839, 23481, 31649, 29702, 25033, 29992, 32, 73, 73, 32, 45, 32, 32, 70, 111,
            115, 115, 105, 108, 32, 83, 67, 77, 32, 10, 32, 36914, 23637, 20013, 30340, 32178, 38555, 33287, 25976, 20301,
            26410, 20358, 32, 45, 32, 19968, 24373, 32, 20845, 21315, 20061, 30334, 33836, 32654, 20803, 30340, 25976, 20301, 22294, 27284,
            32, 44, 32, 32, 87, 104, 97, 116, 32, 105, 115, 32, 66, 108, 111, 99, 107, 99, 104, 97,
            105, 110, 63, 32, 44, 32, 32, 21312, 22602, 37832, 23560, 38988, 22577, 21578, 32, 44, 32, 32, 25033, 29992,
            31684, 20363, 32, 44, 32, 32, 20013, 22283, 21312, 22602, 32244, 29986, 26989, 30333, 30382, 26360, 32, 44, 32, 32,
            66, 117, 105, 108, 100, 32, 89, 111, 117, 114, 32, 79, 119, 110, 32, 66, 108, 111, 99, 107,
            99, 104, 97, 105, 110, 32, 10 >>),
         tags  |-> Str(<<>>),
         url   |-> Str(<<87, 52, 46, 104, 116, 109, 108>>)]),
    \* pages[10]: url 'Python.html', text of 3434 code units
    Obj([title |-> Str(<<80, 121, 116, 104, 111, 110>>),
         text  |-> Str(<<
            80, 121, 116, 104, 111, 110, 32, 35486, 27861, 32, 10, 32, 30001, 26044, 32, 71, 105, 116, 104, 117,
            98, 32, 80, 97, 103, 101, 115, 32, 19981, 20801, 35377, 20282, 26381, 32, 95, 95, 105, 110, 105, 116,
            95, 95, 46, 112, 121, 32, 27284, 26696, 44, 32, 22240, 27492, 19979, 21015, 31684, 20363, 20013, 38656, 35201, 23566,
            20837, 32, 103, 103, 97, 109, 101, 32, 30340, 37096, 20998, 44, 32, 23559, 28961, 27861, 22312, 32, 71, 105,
            116, 104, 117, 98, 32, 80, 97, 103, 101, 115, 32, 32178, 31449, 20013, 22519, 34892, 46, 32, 10, 32,
            80, 121, 116, 104, 111, 110, 32, 51, 32, 23448, 26041, 25945, 26448, 58, 32, 32, 104, 116, 116, 112,
            115, 58, 47, 47, 100, 111, 99, 115, 46, 112, 121, 116, 104, 111, 110, 46, 111, 114, 103, 47,
            51, 47, 105, 110, 100, 101, 120, 46, 104, 116, 109, 108, 32, 10, 32, 80, 121, 116, 104, 111,
            110, 32, 116, 117, 116, 111, 114, 105, 97, 108, 58, 32, 32, 104, 116, 116, 112, 115, 58, 47,
            47, 100, 111, 99, 115, 46, 112, 121, 116, 104, 111, 110, 46, 111, 114, 103, 47, 51, 47, 116,
            117, 116, 111, 114, 105, 97, 108, 47, 105, 110, 100, 101, 120, 46, 104, 116, 109, 108, 32, 32,
            40, 33521, 25991, 41, 32, 10, 32, 80, 121, 116, 104, 111, 110, 32, 25945, 23416, 58, 32, 32, 104,
            116, 116, 112, 115, 58, 47, 47, 112, 121, 116, 104, 111, 110, 45, 100, 111, 99, 45, 116, 119,
            46, 103, 105, 116, 104, 117, 98, 46, 105, 111, 47, 116, 117, 116, 111, 114, 105, 97, 108, 47,
            105, 110, 100, 101, 120, 46, 104, 116, 109, 108, 32, 10, 32, 32178, 38913, 19978, 30340, 32, 80, 121,
            116, 104, 111, 110, 32, 45, 32, 66, 114, 121, 116, 104, 111, 110, 58, 32, 32, 104, 116, 116,
            112, 115, 58, 47, 47, 119, 119, 119, 46, 98, 114, 121, 116, 104, 111, 110, 46, 105, 110, 102,
            111, 47, 115, 116, 97, 116, 105, 99, 95, 100, 111, 99, 47, 101, 110, 47, 105, 110, 116, 114,
            111, 46, 104, 116, 109, 108, 32, 32, 40, 35299, 35695, 24335, 41, 32, 10, 32, 32178, 38913, 19978, 30340,
            32, 80, 121, 116, 104, 111, 110, 32, 71, 85, 73, 45, 32, 70, 108, 101, 120, 120, 58, 32,
            32, 104, 116, 116, 112, 115, 58, 47, 47, 102, 108, 101, 120, 120, 46, 114, 101, 97, 100, 116,
            104, 101, 100, 111, 99, 115, 46, 105, 111, 47, 101, 110, 47, 115, 116, 97, 98, 108, 101, 47,
            32, 32, 40, 36681, 35695, 24335, 41, 32, 10, 32, 38283, 25918, 38651, 23376, 26360, 58, 32, 10, 32, 80,
            121, 116, 104, 111, 110, 32, 25945, 31243, 32, 32, 40, 20013, 25991, 41, 32, 10, 32, 80, 121, 116,
            104, 111, 110, 32, 20837, 38272, 25351, 21335, 32, 32, 40, 20013, 25991, 41, 32, 10, 32, 104, 111, 119,
            45, 116, 111, 45, 99, 111, 100, 101, 45, 105, 110, 45, 112, 121, 116, 104, 111, 110, 46, 112,
            100, 102, 32, 32, 40, 33521, 25991, 41, 32, 10, 32, 104, 116, 116, 112, 115, 58, 47, 47, 119,
            119, 119, 46, 112, 121, 52, 101, 46, 99, 111, 109, 47, 98, 111, 111, 107, 46, 112, 104, 112,
            32, 32, 40, 33521, 25991, 33287, 23567, 37096, 20998, 23436, 25104, 20013, 25991, 32763, 35695, 41, 32, 10, 32, 10,
            32, 10, 32, 10, 32, 32, 102, 111, 114, 32, 103, 103, 97, 109, 101, 32, 32, 10, 32, 10,
            32, 10, 32, 10, 32, 10, 32, 10, 32, 32, 67, 97, 110, 103, 111, 32, 31243, 24335, 24235, 32,
            32, 10, 32, 10, 32, 10, 32, 10, 32, 32, 102, 111, 114, 32, 75, 111, 110, 118, 97, 32,
            31243, 24335, 24235, 32, 32, 10, 32, 10, 32, 10, 32, 10, 32, 32, 23566, 20837, 32, 70, 105, 108,
            101, 83, 97, 118, 101, 114, 32, 33287, 32, 102, 105, 108, 101, 114, 101, 97, 100, 101, 114, 32,
            32, 10, 32, 10, 32, 10, 32, 10, 32, 10, 32, 32, 23566, 20837, 32, 97, 99, 101, 32, 32,
            10, 32, 10, 32, 10, 32, 10, 32, 10, 32, 10, 32, 10, 32, 32, 35531, 27880, 24847, 44, 32,
            36889, 35041, 20351, 29992, 32, 74, 97, 118, 97, 115, 99, 114, 105, 112, 116, 32, 23559, 32, 108, 111,
            99, 97, 108, 83, 116, 111, 114, 97, 103, 101, 91, 34, 112, 121, 95, 115, 114, 99, 34, 93,
            32, 20013, 23384, 22312, 36817, 31471, 28687, 35261, 22120, 30340, 31243, 24335, 30908, 44, 32, 30001, 20351, 29992, 32773, 27770,
            23450, 23384, 27284, 21517, 31281, 32, 10, 32, 10, 32, 10, 32, 10, 32, 38283, 22987, 32244, 32722, 32, 112,
            114, 105, 110, 116, 40, 41, 32, 29992, 27861, 44, 32, 20006, 33879, 25163, 24314, 31435, 20989, 24335, 32, 10,
            32, 32, 21360, 20986, 29256, 27425, 33287, 38364, 37749, 23383, 31243, 24335, 32, 32, 10, 32, 10, 32, 10, 32,
            10, 32, 32, 29992, 20358, 39023, 31034, 31243, 24335, 30908, 30340, 32, 101, 100, 105, 116, 111, 114, 32, 21312,
            22495, 32, 32, 10, 32, 10, 32, 32, 20197, 19979, 30340, 34920, 21934, 33287, 25353, 37397, 33287, 21069, 38754, 30340,
            32, 74, 97, 118, 97, 115, 99, 114, 105, 112, 116, 32, 100, 111, 83, 97, 118, 101, 32, 20989,
            24335, 20197, 21450, 32, 70, 105, 108, 101, 83, 97, 118, 101, 114, 46, 109, 105, 110, 46, 106, 115,
            32, 20114, 30456, 37197, 21512, 32, 32, 10, 32, 70, 105, 108, 101, 110, 97, 109, 101, 58, 32, 32,
            46, 112, 121, 32, 32, 32, 10, 32, 82, 117, 110, 32, 32, 32, 79, 117, 116, 112, 117, 116,
            32, 32, 32, 28165, 38500, 36664, 20986, 21312, 32, 28165, 38500, 32362, 22294, 21312, 32, 82, 101, 108, 111, 97,
            100, 32, 10, 32, 10, 32, 10, 32, 10, 32, 32, 42, 42, 42, 42, 42, 42, 42, 42, 42,
            42, 42, 42, 42, 42, 42, 42, 42, 42, 42, 42, 42, 42, 42, 42, 42, 42, 42, 42, 42,
            42, 32, 107, 101, 121, 119, 111, 114, 100, 32, 115, 116, 97, 114, 116, 32, 32, 10, 32, 10,
            32, 10, 32, 32, 42, 42, 42, 42, 42, 42, 42, 42, 42, 42, 42, 42, 42, 42, 42, 42,
            42, 42, 42, 42, 42, 42, 42, 42, 42, 42, 42, 42, 42, 42, 32, 107, 101, 121, 119, 111,
            114, 100, 32, 101, 110, 100, 32, 32, 10, 32, 32, 42, 42, 42, 42, 42, 42, 42, 42, 42,
            42, 42, 42, 42, 42, 42, 42, 42, 42, 42, 42, 42, 42, 42, 42, 42, 42, 42, 42, 42,
            32, 115, 108, 105, 100, 101, 32, 101, 120, 49, 32, 115, 116, 97, 114, 116, 32, 32, 10, 32,
            10, 32, 10, 32, 10, 32, 32, 42, 42, 42, 42, 42, 42, 42, 42, 42, 42, 42, 42, 42,
            42, 42, 42, 42, 42, 42, 42, 42, 42, 42, 42, 42, 42, 42, 42, 42, 32, 115, 108, 105,
            100, 101, 32, 101, 120, 49, 32, 101, 110, 100, 32, 32, 10, 32, 32, 42, 42, 42, 42, 42,
            42, 42, 42, 42, 42, 42, 42, 42, 42, 42, 42, 42, 42, 42, 42, 42, 42, 42, 42, 42,
            42, 42, 42, 42, 32, 115, 108, 105, 100, 101, 32, 101, 120, 50, 32, 115, 116, 97, 114, 116,
            32, 32, 10, 32, 10, 32, 10, 32, 10, 32, 32, 42, 42, 42, 42, 42, 42, 42, 42, 42,
            42, 42, 42, 42, 42, 42, 42, 42, 42, 42, 42, 42, 42, 42, 42, 42, 42, 42, 42, 42,
            32, 115, 108, 105, 100, 101, 32, 101, 120, 50, 32, 101, 110, 100, 32, 32, 10, 32, 32, 42,
            42, 42, 42, 42, 42, 42, 42, 42, 42, 42, 42, 42, 42, 42, 42, 42, 42, 42, 42, 42,
            42, 42, 42, 42, 42, 42, 42, 42, 32, 115, 108, 105, 100, 101, 32, 101, 120, 51, 32, 115,
            116, 97, 114, 116, 32, 32, 10, 32, 10, 32, 10, 32, 10, 32, 32, 42, 42, 42, 42, 42,
            42, 42, 42, 42, 42, 42, 42, 42, 42, 42, 42, 42, 42, 42, 42, 42, 42, 42, 42, 42,
            42, 42, 42, 42, 32, 115, 108, 105, 100, 101, 32, 101, 120, 51, 32, 101, 110, 100, 32, 32,
            10, 32, 32, 42, 42, 42, 42, 42, 42, 42, 42, 42, 42, 42, 42, 42, 42, 42, 42, 42,
            42, 42, 42, 42, 42, 42, 42, 42, 42, 42, 42, 42, 32, 115, 108, 105, 100, 101, 32, 101,
            120, 52, 32, 115, 116, 97, 114, 116, 32, 32, 10, 32, 10, 32, 10, 32, 10, 32, 32, 42,
            42, 42, 42, 42, 42, 42, 42, 42, 42, 42, 42, 42, 42, 42, 42, 42, 42, 42, 42, 42,
            42, 42, 42, 42, 42, 42, 42, 42, 32, 115, 108, 105, 100, 101, 32, 101, 120, 52, 32, 101,
            110, 100, 32, 32, 10, 32, 32, 108, 105, 110, 101, 32, 100, 114, 97, 119, 105, 110, 103, 32,
            115, 116, 97, 114, 116, 32, 32, 10, 32, 10, 32, 10, 32, 10, 32, 32, 108, 105, 110, 101,
            32, 100, 114, 97, 119, 105, 110, 103, 32, 101, 110, 100, 115, 32, 32, 10, 32, 10, 32, 32,
            102, 108, 97, 103, 32, 101, 120, 32, 115, 116, 97, 114, 116, 32, 32, 10, 32, 10, 32, 10,
            32, 10, 32, 32, 102, 108, 97, 103, 32, 101, 120, 32, 101, 110, 100, 115, 32, 32, 10, 32,
            10, 32, 32, 98, 117, 110, 110, 121, 32, 115, 116, 97, 114, 116, 32, 32, 10, 32, 10, 32,
            10, 32, 10, 32, 32, 98, 117, 110, 110, 121, 32, 101, 110, 100, 115, 32, 32, 10, 32, 10,
            32, 32, 99, 108, 101, 97, 114, 32, 99, 97, 110, 118, 97, 115, 32, 115, 116, 97, 114, 116,
            32, 32, 10, 32, 10, 32, 10, 32, 10, 32, 32, 99, 108, 101, 97, 114, 32, 99, 97, 110,
            118, 97, 115, 32, 101, 110, 100, 115, 32, 32, 10, 32, 10, 32, 32, 99, 97, 110, 103, 111,
            32, 115, 112, 117, 114, 32, 103, 101, 97, 114, 115, 32, 115, 116, 97, 114, 116, 32, 32, 10,
            32, 10, 32, 10, 32, 10, 32, 32, 99, 97, 110, 103, 111, 32, 115, 112, 117, 114, 32, 103,
            101, 97, 114, 115, 32, 101, 110, 100, 115, 32, 32, 10, 32, 10, 32, 32, 116, 101, 109, 112,
            32, 99, 111, 110, 118, 101, 114, 116, 32, 115, 116, 97, 114, 116, 32, 32, 10, 32, 10, 32,
            10, 32, 10, 32, 32, 116, 101, 109, 112, 32, 99, 111, 110, 118, 101, 114, 116, 32, 101, 110,
            100, 115, 32, 32, 10, 32, 10, 32, 32, 102, 111, 114, 108, 111, 111, 112, 32, 115, 116, 97,
            114, 116, 32, 32, 10, 32, 10, 32, 10, 32, 10, 32, 32, 102, 111, 114, 108, 111, 111, 112,
            32, 101, 110, 100, 115, 32, 32, 10, 32, 10, 32, 32, 103, 117, 101, 115, 115, 32, 115, 116,
            97, 114, 116, 32, 32, 10, 32, 10, 32, 10, 32, 10, 32, 32, 103, 117, 101, 115, 115, 32,
            101, 110, 100, 115, 32, 32, 10, 32, 10, 32, 32, 97, 117, 116, 111, 103, 117, 101, 115, 115,
            32, 115, 116, 97, 114, 116, 32, 32, 10, 32, 10, 32, 10, 32, 10, 32, 32, 97, 117, 116,
            111, 103, 117, 101, 115, 115, 32, 101, 110, 100, 115, 32, 32, 10, 32, 10, 32, 32, 108, 111,
            116, 116, 101, 114, 121, 32, 115, 116, 97, 114, 116, 32, 32, 10, 32, 10, 32, 10, 32, 10,
            32, 32, 108, 111, 116, 116, 101, 114, 121, 32, 101, 110, 100, 115, 32, 32, 10, 32, 10, 32,
            32, 21488, 28771, 23041, 21147, 24425, 32, 115, 116, 97, 114, 116, 32, 32, 10, 32, 10, 32, 10, 32,
            10, 32, 32, 21488, 28771, 23041, 21147, 24425, 32, 101, 110, 100, 115, 32, 32, 10, 32, 10, 32, 32,
            98, 101, 122, 105, 101, 114, 32, 115, 116, 97, 114, 116, 115, 32, 32, 10, 32, 10, 32, 10,
            32, 10, 32, 32, 98, 101, 122, 105, 101, 114, 32, 101, 110, 100, 115, 32, 32, 10, 32, 10,
            32, 32, 116, 117, 114, 116, 108, 101, 49, 32, 115, 116, 97, 114, 116, 115, 32, 32, 10, 32,
            10, 32, 10, 32, 10, 32, 32, 116, 117, 114, 116, 108, 101, 49, 32, 101, 110, 100, 115, 32,
            32, 10, 32, 10, 32, 32, 116, 117, 114, 116, 108, 101, 50, 32, 115, 116, 97, 114, 116, 115,
            32, 32, 10, 32, 10, 32, 10, 32, 10, 32, 32, 116, 117, 114, 116, 108, 101, 50, 32, 101,
            110, 100, 115, 32, 32, 10, 32, 10, 32, 32, 116, 117, 114, 116, 108, 101, 51, 32, 115, 116,
            97, 114, 116, 115, 32, 32, 10, 32, 10, 32, 10, 32, 10, 32, 32, 116, 117, 114, 116, 108,
            101, 51, 32, 101, 110, 100, 115, 32, 32, 10, 32, 10, 32, 32, 116, 117, 114, 116, 108, 101,
            52, 32, 115, 116, 97, 114, 116, 115, 32, 32, 10, 32, 10, 32, 10, 32, 10, 32, 32, 116,
            117, 114, 116, 108, 101, 52, 32, 101, 110, 100, 115, 32, 32, 10, 32, 10, 32, 32, 116, 117,
            114, 116, 108, 101, 53, 32, 115, 116, 97, 114, 116, 115, 32, 32, 10, 32, 10, 32, 10, 32,
            10, 32, 32, 116, 117, 114, 116, 108, 101, 53, 32, 101, 110, 100, 115, 32, 32, 10, 32, 10,
            32, 32, 116, 117, 114, 116, 108, 101, 54, 32, 115, 116, 97, 114, 116, 115, 32, 32, 10, 32,
            10, 32, 10, 32, 10, 32, 32, 116, 117, 114, 116, 108, 101, 54, 32, 101, 110, 100, 115, 32,
            32, 10, 32, 10, 32, 32, 116, 117, 114, 116, 108, 101, 55, 32, 115, 116, 97, 114, 116, 115,
            32, 32, 10, 32, 10, 32, 10, 32, 10, 32, 32, 116, 117, 114, 116, 108, 101, 55, 32, 101,
            110, 100, 115, 32, 32, 10, 32, 10, 32, 32, 116, 117, 114, 116, 108, 101, 56, 32, 115, 116,
            97, 114, 116, 115, 32, 32, 10, 32, 10, 32, 10, 32, 10, 32, 32, 116, 117, 114, 116, 108,
            101, 56, 32, 101, 110, 100, 115, 32, 32, 10, 32, 10, 32, 32, 107, 111, 110, 118, 97, 49,
            32, 115, 116, 97, 114, 116, 115, 32, 32, 10, 32, 10, 32, 10, 32, 10, 32, 32, 107, 111,
            110, 118, 97, 49, 32, 101, 110, 100, 115, 32, 32, 10, 32, 10, 32, 32, 121, 99, 113, 115,
            111, 114, 116, 32, 115, 116, 97, 114, 116, 115, 32, 32, 10, 32, 10, 32, 10, 32, 10, 32,
            32, 121, 99, 113, 115, 111, 114, 116, 32, 101, 110, 100, 115, 32, 32, 10, 32, 10, 32, 32,
            98, 97, 108, 108, 32, 115, 116, 97, 114, 116, 115, 32, 32, 10, 32, 10, 32, 10, 32, 10,
            32, 32, 98, 97, 108, 108, 32, 101, 110, 100, 115, 32, 32, 10, 32, 32, 42, 42, 42, 42,
            42, 42, 42, 42, 42, 42, 42, 42, 42, 42, 42, 42, 42, 42, 42, 42, 42, 42, 42, 42,
            42, 42, 42, 42, 42, 42, 32, 98, 117, 98, 98, 108, 101, 32, 115, 111, 114, 116, 32, 115,
            116, 97, 114, 116, 32, 32, 10, 32, 10, 32, 10, 32, 32, 42, 42, 42, 42, 42, 42, 42,
            42, 42, 42, 42, 42, 42, 42, 42, 42, 42, 42, 42, 42, 42, 42, 42, 42, 42, 42, 42,
            42, 42, 42, 32, 98, 117, 98, 98, 108, 101, 32, 115, 111, 114, 116, 32, 101, 110, 100, 32,
            32, 10, 32, 75, 101, 121, 119, 111, 114, 100, 32, 66, 117, 98, 98, 108, 101, 32, 83, 111,
            114, 116, 32, 69, 120, 49, 32, 69, 120, 50, 32, 69, 120, 51, 32, 69, 120, 52, 32, 69,
            120, 53, 32, 71, 117, 101, 115, 115, 32, 65, 117, 116, 111, 103, 117, 101, 115, 115, 32, 22823,
            27138, 36879, 32, 23041, 21147, 24425, 32, 84, 101, 109, 112, 32, 68, 114, 97, 119, 32, 70, 108, 97,
            103, 32, 66, 101, 122, 105, 101, 114, 32, 84, 117, 114, 116, 108, 101, 49, 32, 84, 117, 114,
            116, 108, 101, 50, 32, 84, 117, 114, 116, 108, 101, 51, 32, 84, 117, 114, 116, 108, 101, 52,
            32, 84, 117, 114, 116, 108, 101, 53, 32, 84, 117, 114, 116, 108, 101, 54, 32, 84, 117, 114,
            116, 108, 101, 55, 32, 84, 117, 114, 116, 108, 101, 56, 32, 75, 111, 110, 118, 97, 49, 32,
            66, 117, 110, 110, 121, 32, 66, 97, 108, 108, 32, 83, 112, 117, 114, 32, 89, 99, 113, 115,
            111, 114, 116, 32, 67, 108, 101, 97, 114, 32, 10, 32, 21443, 32771, 36039, 26009, 58, 32, 10, 32,
            116, 117, 114, 116, 108, 101, 95, 105, 110, 116, 114, 111, 46, 112, 100, 102, 32, 10, 32, 116,
            117, 114, 116, 108, 101, 95, 105, 110, 116, 114, 111, 50, 46, 112, 100, 102, 32, 10, 32, 20854,
            20182, 25847, 21462, 31243, 24335, 30340, 26041, 24335, 58, 32, 32, 104, 116, 116, 112, 58, 47, 47, 109, 100,
            101, 46, 116, 119, 47, 50, 48, 49, 55, 115, 112, 114, 105, 110, 103, 118, 99, 112, 47, 98,
            108, 111, 103, 47, 119, 101, 98, 45, 98, 97, 115, 101, 100, 45, 112, 121, 116, 104, 111, 110,
            46, 104, 116, 109, 108, 32, 10, 32, 81, 116, 32, 102, 111, 114, 32, 80, 121, 116, 104, 111,
            110, 32, 10, 32, 104, 116, 116, 112, 115, 58, 47, 47, 119, 119, 119, 46, 113, 116, 46, 105,
            111, 47, 113, 116, 45, 102, 111, 114, 45, 112, 121, 116, 104, 111, 110, 32, 10, 32, 104, 116,
            116, 112, 115, 58, 47, 47, 98, 117, 105, 108, 100, 45, 115, 121, 115, 116, 101, 109, 46, 102,
            109, 97, 110, 46, 105, 111, 47, 112, 121, 116, 104, 111, 110, 45, 113, 116, 45, 116, 117, 116,
            111, 114, 105, 97, 108, 32, 10, 32, 104, 116, 116, 112, 115, 58, 47, 47, 98, 117, 105, 108,
            100, 45, 115, 121, 115, 116, 101, 109, 46, 102, 109, 97, 110, 46, 105, 111, 47, 112, 121, 113,
            116, 45, 101, 120, 101, 45, 99, 114, 101, 97, 116, 105, 111, 110, 47, 32, 10, 32, 104, 116,
            116, 112, 115, 58, 47, 47, 103, 105, 116, 104, 117, 98, 46, 99, 111, 109, 47, 109, 104, 101,
            114, 114, 109, 97, 110, 110, 47, 102, 98, 115, 45, 116, 117, 116, 111, 114, 105, 97, 108, 32,
            10, 32, 104, 116, 116, 112, 115, 58, 47, 47, 119, 119, 119, 46, 105, 99, 115, 46, 99, 111,
            109, 47, 98, 108, 111, 103, 47, 119, 101, 45, 112, 111, 114, 116, 101, 100, 45, 113, 116, 45,
            97, 112, 112, 45, 99, 45, 112, 121, 116, 104, 111, 110, 45, 104, 101, 114, 101, 115, 45, 119,
            104, 97, 116, 45, 104, 97, 112, 112, 101, 110, 101, 100, 32, 10, 32, 81, 77, 76, 32, 33287,
            32, 70, 108, 117, 116, 116, 101, 114, 32, 10, 32, 104, 116, 116, 112, 115, 58, 47, 47, 112,
            97, 117, 108, 104, 97, 109, 109, 97, 110, 116, 46, 99, 111, 109, 47, 50, 48, 49, 54, 47,
            49, 49, 47, 49, 53, 47, 113, 109, 108, 115, 45, 115, 113, 117, 97, 110, 100, 101, 114, 101,
            100, 45, 111, 112, 112, 111, 114, 116, 117, 110, 105, 116, 121, 47, 32, 160, 20013, 25152, 25552, 21040,
            32, 81, 77, 76, 32, 30340, 24369, 40670, 22312, 26044, 23559, 32, 46, 113, 109, 108, 32, 33287, 32, 46,
            99, 43, 43, 32, 25110, 32, 46, 112, 121, 160, 32, 20998, 38283, 30340, 21839, 38988, 44, 32, 71, 111,
            111, 103, 108, 101, 32, 32317, 31639, 22312, 32, 70, 108, 117, 116, 116, 101, 114, 32, 36969, 24230, 35299,
            27770, 20102, 27492, 19968, 29942, 38968, 46, 32, 10, 32, 20294, 26159, 32, 81, 77, 76, 32, 21152, 19978, 32,
            81, 116, 32, 102, 111, 114, 32, 80, 121, 116, 104, 111, 110, 32, 20173, 19981, 22833, 28858, 19968, 20491,
            22909, 20102, 32, 68, 101, 115, 107, 116, 111, 112, 32, 71, 85, 73, 32, 38283, 30332, 26694, 26550, 46,
            32, 10, 32, 10, 32, 10, 32, 10, 32, 10, 32, 10, 32, 10 >>),
         tags  |-> Str(<<>>),
         url   |-> Str(<<80, 121, 116, 104, 111, 110, 46, 104, 116, 109, 108>>)]),
    \* pages[11]: url 'W5.html', text of 967 code units
    Obj([title |-> Str(<<87, 53>>),
         text  |-> Str(<<
            32178, 38555, 20839, 23481, 31649, 29702, 30340, 20351, 29992, 24314, 35696, 58, 32, 10, 32, 10, 32, 22312, 38642, 31471,
            19978, 21482, 23384, 25918, 33287, 20491, 20154, 25110, 22296, 38538, 23560, 26989, 26377, 38364, 30340, 20839, 23481, 32, 40, 20197,
            23416, 34399, 20316, 28858, 32, 105, 100, 101, 110, 116, 105, 116, 121, 44, 32, 38500, 20102, 32, 32, 76,
            105, 110, 107, 101, 100, 105, 110, 32, 32, 22806, 44, 32, 19981, 35201, 20351, 29992, 26412, 21517, 41, 32,
            10, 32, 19981, 35201, 23559, 20491, 20154, 29983, 27963, 26377, 38364, 30340, 22294, 25991, 25918, 21040, 32178, 38555, 31354, 38291,
            32, 40, 19981, 35201, 20351, 29992, 33225, 26360, 44, 32, 19981, 35201, 20351, 29992, 20854, 20182, 20219, 20309, 38642, 31471,
            31038, 32676, 26381, 21209, 25850, 25918, 20219, 20309, 20491, 20154, 36039, 26009, 41, 32, 10, 32, 20760, 37327, 20351, 29992,
            28687, 35261, 22120, 26597, 25214, 36039, 26009, 44, 32, 27599, 27425, 20351, 29992, 24460, 35201, 21034, 38500, 26283, 23384, 27284,
            44, 32, 36991, 20813, 20351, 29992, 25163, 27231, 19978, 32129, 23450, 23526, 21517, 21046, 30340, 32, 65, 112, 112, 115,
            32, 10, 32, 10, 32, 36889, 20491, 31150, 25308, 38283, 22987, 33267, 32, 87, 57, 44, 32, 21508, 23567, 32068,
            35201, 23559, 32, 87, 49, 45, 87, 52, 32, 30340, 25945, 23416, 24433, 29255, 21152, 20197, 25972, 29702, 44, 32,
            35731, 27599, 20301, 32068, 21729, 37117, 33021, 22312, 32, 66, 108, 111, 103, 103, 101, 114, 32, 25972, 29702, 33258,
            24049, 36942, 21435, 19968, 20491, 22810, 23416, 26399, 30340, 35506, 31243, 23416, 32722, 20839, 23481, 44, 32, 20197, 32178, 38555,
            20839, 23481, 31649, 29702, 26550, 27083, 44, 32, 21487, 25884, 31243, 24335, 31995, 32113, 21450, 32, 71, 105, 116, 104,
            117, 98, 32, 20489, 20786, 33287, 32178, 38913, 30340, 27169, 24335, 23384, 25918, 20839, 23481, 46, 32, 10, 32, 32178,
            38555, 20839, 23481, 31649, 29702, 23416, 32722, 32, 67, 104, 101, 99, 107, 32, 76, 105, 115, 116, 58, 32,
            10, 32, 10, 32, 26159, 21542, 24050, 32147, 24314, 31435, 20491, 20154, 32, 66, 108, 111, 103, 103, 101, 114,
            63, 32, 10, 32, 26159, 21542, 26371, 20351, 29992, 32, 66, 108, 111, 103, 103, 101, 114, 44, 32, 26032,
            22686, 21332, 21516, 33879, 20316, 32773, 63, 32, 10, 32, 26159, 21542, 26371, 22312, 32, 66, 108, 111, 103, 103,
            101, 114, 32, 20013, 20351, 29992, 21508, 31278, 32, 72, 84, 77, 76, 32, 27161, 35387, 44, 32, 21253, 25324,
            21152, 20837, 32, 80, 121, 116, 104, 111, 110, 32, 31243, 24335, 30908, 44, 32, 23884, 20837, 24433, 29255, 27284,
            26696, 31561, 63, 32, 10, 32, 26159, 21542, 26371, 21033, 29992, 32, 32, 104, 116, 116, 112, 115, 58, 47,
            47, 103, 105, 116, 104, 117, 98, 46, 99, 111, 109, 47, 109, 100, 101, 99, 111, 117, 114, 115,
            101, 47, 99, 109, 115, 116, 101, 109, 112, 108, 97, 116, 101, 32, 32, 24314, 31435, 20491, 20154, 32178,
            38913, 63, 32, 10, 32, 26159, 21542, 26371, 22312, 20491, 20154, 32178, 31449, 19978, 23884, 20837, 32178, 38555, 32, 80,
            121, 116, 104, 111, 110, 32, 40, 32, 66, 114, 121, 116, 104, 111, 110, 32, 41, 32, 31243, 24335,
            29872, 22659, 63, 32, 10, 32, 26159, 21542, 24050, 32147, 20102, 35299, 25152, 35586, 30340, 32, 66, 117, 98, 98,
            108, 101, 32, 83, 111, 114, 116, 32, 80, 121, 116, 104, 111, 110, 32, 31243, 24335, 63, 32, 10,
            32, 26159, 21542, 24050, 32147, 26371, 20351, 29992, 32, 83, 83, 72, 32, 23559, 25913, 29256, 36039, 26009, 32, 112,
            117, 115, 104, 32, 21040, 32, 71, 105, 116, 104, 117, 98, 63, 32, 10, 32, 21508, 32068, 26159, 21542,
            24050, 32147, 25214, 21040, 24819, 35201, 30740, 31350, 30340, 32178, 38555, 20839, 23481, 31649, 29702, 30456, 38364, 30340, 20998, 32068,
            23560, 26696, 38988, 30446, 63, 32, 10, 32, 10, 32, 50, 48, 48, 56, 95, 79, 114, 103, 97, 110,
            105, 122, 105, 110, 103, 32, 97, 110, 100, 32, 77, 97, 110, 97, 103, 105, 110, 103, 32, 80,
            101, 114, 115, 111, 110, 97, 108, 32, 69, 108, 101, 99, 116, 114, 111, 110, 105, 99, 32, 70,
            105, 108, 101, 115, 45, 32, 65, 32, 77, 101, 99, 104, 97, 110, 105, 99, 97, 108, 32, 69,
            110, 103, 105, 110, 101, 101, 114, 8217, 115, 32, 80, 101, 114, 115, 112, 101, 99, 116, 105, 118,
            101, 46, 112, 100, 102, 32, 10, 32, 104, 111, 119, 45, 116, 111, 45, 99, 111, 100, 101, 45,
            105, 110, 45, 112, 121, 116, 104, 111, 110, 46, 112, 100, 102, 32, 10, 32, 50, 48, 49, 56,
            95, 20013, 22283, 21312, 22602, 37706, 29986, 26989, 30333, 30382, 26360, 46, 112, 100, 102, 32, 10, 32, 50, 48,
            49, 57, 45, 48, 56, 23560, 38988, 22577, 21578, 45, 21312, 22602, 37832, 112, 108, 117, 115, 26178, 20195, 30340,
            31038, 32147, 35722, 38761, 33287, 21109, 26032, 24605, 32173, 46, 112, 100, 102, 32, 10, 32, 50, 48, 50, 48,
            24180, 20013, 23567, 20225, 26989, 30333, 30382, 26360, 40, 20840, 41, 95, 118, 49, 46, 112, 100, 102, 32, 10,
            32, 21109, 24847, 21488, 28771, 32, 50, 48, 50, 48, 32, 25919, 31574, 30333, 30382, 26360, 46, 112, 100, 102,
            32, 10, 32, 66, 108, 111, 99, 107, 99, 104, 97, 105, 110, 95, 102, 111, 114, 95, 100, 117,
            109, 109, 105, 101, 115, 46, 112, 100, 102, 32, 10, 32, 67, 111, 109, 112, 117, 116, 101, 114,
            78, 101, 116, 119, 111, 114, 107, 115, 95, 57, 51, 54, 95, 112, 97, 103, 101, 115, 46, 112,
            100, 102, 32, 10, 32, 50, 48, 51, 48, 32, 21488, 28771, 31185, 25216, 39000, 26223, 58, 32, 10, 32,
            116, 97, 105, 119, 97, 110, 95, 50, 48, 51, 48, 95, 116, 101, 99, 104, 95, 118, 105, 115,
            105, 111, 110, 46, 112, 100, 102 >>),
         tags  |-> Str(<<>>),
         url   |-> Str(<<87, 53, 46, 104, 116, 109, 108>>)]),
    \* pages[12]: url 'Topic2.html', text of 1555 code units
    Obj([title |-> Str(<<84, 111, 112, 105, 99, 50>>),
         text  |-> Str(<<
            23416, 26657, 33287, 31995, 19978, 25152, 25552, 20379, 30340, 36575, 39636, 22871, 20214, 23433, 35037, 20171, 32057, 32, 10, 32,
            87, 105, 110, 100, 111, 119, 115, 32, 49, 48, 32, 10, 32, 26657, 22290, 36575, 39636, 32, 10, 32,
            35373, 35336, 33287, 20998, 26512, 22871, 20214, 58, 32, 10, 32, 36628, 21161, 24037, 20855, 32, 10, 32, 26657, 22290,
            19979, 36617, 32, 20197, 19979, 36899, 32080, 24517, 38920, 22312, 26657, 22290, 32178, 36335, 12289, 20351, 29992, 23416, 26657, 20195,
            29702, 20027, 27231, 25110, 32, 118, 112, 110, 32, 27169, 24335, 19979, 25165, 21487, 19979, 36617, 32, 65, 117, 116,
            111, 68, 101, 115, 107, 32, 80, 68, 83, 85, 32, 32, 40, 80, 114, 111, 100, 117, 99, 116,
            32, 68, 101, 115, 105, 103, 110, 32, 83, 117, 105, 116, 101, 32, 85, 108, 116, 105, 109, 97,
            116, 101, 32, 101, 100, 105, 116, 105, 111, 110, 41, 32, 21253, 21547, 58, 32, 65, 117, 116, 111,
            100, 101, 115, 107, 32, 73, 110, 118, 101, 110, 116, 111, 114, 32, 80, 114, 111, 102, 101, 115,
            115, 105, 111, 110, 97, 108, 32, 65, 117, 116, 111, 67, 65, 68, 32, 77, 101, 99, 104, 97,
            110, 105, 99, 97, 108, 32, 65, 117, 116, 111, 67, 65, 68, 32, 69, 108, 101, 99, 116, 114,
            105, 99, 97, 108, 32, 65, 117, 116, 111, 67, 65, 68, 32, 78, 97, 118, 105, 115, 119, 111,
            114, 107, 115, 32, 83, 105, 109, 117, 108, 97, 116, 101, 32, 65, 117, 116, 111, 67, 65, 68,
            32, 82, 97, 115, 116, 101, 114, 32, 68, 101, 115, 105, 103, 110, 32, 65, 117, 116, 111, 100,
            101, 115, 107, 32, 82, 101, 99, 97, 112, 32, 65, 117, 116, 111, 100, 101, 115, 107, 32, 86,
            97, 117, 108, 116, 32, 66, 97, 115, 105, 99, 32, 65, 117, 116, 111, 100, 101, 115, 107, 32,
            70, 117, 115, 105, 111, 110, 32, 51, 54, 48, 32, 78, 97, 118, 105, 115, 119, 111, 114, 107,
            115, 32, 77, 97, 110, 97, 103, 101, 32, 65, 117, 116, 111, 68, 101, 115, 107, 32, 23433, 35037,
            25945, 23416, 46, 112, 100, 102, 32, 23448, 26041, 32178, 31449, 19979, 36617, 32, 32, 24076, 26395, 22312, 20219, 20309,
            22320, 26041, 20351, 29992, 44, 21487, 20197, 24478, 32, 32, 104, 116, 116, 112, 115, 58, 47, 47, 119, 119,
            119, 46, 97, 117, 116, 111, 100, 101, 115, 107, 46, 99, 111, 109, 47, 101, 100, 117, 99, 97,
            116, 105, 111, 110, 47, 102, 114, 101, 101, 45, 115, 111, 102, 116, 119, 97, 114, 101, 47, 105,
            110, 118, 101, 110, 116, 111, 114, 45, 112, 114, 111, 102, 101, 115, 115, 105, 111, 110, 97, 108,
            32, 32, 44, 32, 20197, 32, 64, 103, 109, 32, 38651, 23376, 37109, 31665, 30331, 37636, 19988, 35469, 35657, 24460,
            19979, 36617, 44, 32, 21462, 24471, 19977, 24180, 20813, 36027, 20351, 29992, 25480, 27402, 46, 32, 20801, 35377, 21516, 26178,
            23433, 35037, 22312, 31558, 38651, 33287, 26700, 19978, 22411, 38651, 33126, 20849, 20841, 22871, 46, 32, 24314, 35696, 23433, 35037,
            27969, 31243, 32, 21033, 29992, 23416, 26657, 37197, 30332, 30340, 38651, 23376, 37109, 31665, 44, 32, 36899, 32080, 33267, 32,
            32, 104, 116, 116, 112, 115, 58, 47, 47, 119, 119, 119, 46, 97, 117, 116, 111, 100, 101, 115,
            107, 46, 99, 111, 109, 47, 101, 100, 117, 99, 97, 116, 105, 111, 110, 47, 102, 114, 101, 101,
            45, 115, 111, 102, 116, 119, 97, 114, 101, 47, 105, 110, 118, 101, 110, 116, 111, 114, 45, 112,
            114, 111, 102, 101, 115, 115, 105, 111, 110, 97, 108, 32, 32, 44, 32, 30331, 35352, 24115, 34399, 44,
            32, 39511, 35657, 32, 101, 109, 97, 105, 108, 32, 24460, 44, 32, 21462, 24471, 32, 65, 117, 116, 111,
            68, 101, 115, 107, 32, 73, 110, 118, 101, 110, 116, 111, 114, 32, 80, 114, 111, 102, 101, 115,
            115, 105, 111, 110, 97, 108, 32, 29256, 26412, 32, 50, 48, 49, 57, 32, 30340, 32, 83, 101, 114,
            105, 97, 108, 32, 78, 117, 109, 98, 101, 114, 32, 24460, 44, 32, 24478, 23416, 26657, 32178, 31449, 20013,
            19979, 36617, 32, 32, 65, 117, 116, 111, 68, 101, 115, 107, 32, 80, 68, 83, 85, 32, 44, 32,
            23433, 35037, 24460, 44, 32, 21033, 29992, 21069, 36848, 25152, 21462, 24471, 30340, 24207, 34399, 21855, 21205, 32, 65, 117,
            116, 111, 68, 101, 115, 107, 32, 73, 110, 118, 101, 110, 116, 111, 114, 32, 80, 114, 111, 102,
            101, 115, 115, 105, 111, 110, 97, 108, 32, 50, 48, 49, 57, 44, 32, 20043, 24460, 23601, 21487, 20197,
            22312, 20219, 20309, 22320, 26041, 19978, 32178, 20351, 29992, 46, 32, 10, 32, 21482, 35201, 26159, 26657, 20839, 32, 73,
            80, 32, 23601, 21487, 20197, 19979, 36617, 44, 32, 28961, 38656, 20351, 29992, 32, 118, 112, 110, 46, 32, 104,
            116, 116, 112, 115, 58, 47, 47, 115, 111, 102, 116, 119, 97, 114, 101, 46, 110, 102, 117, 46,
            101, 100, 117, 46, 116, 119, 47, 68, 101, 118, 101, 108, 111, 112, 101, 114, 47, 86, 105, 115,
            117, 97, 108, 37, 50, 48, 83, 116, 117, 100, 105, 111, 47, 116, 119, 47, 86, 105, 115, 117,
            97, 108, 95, 83, 116, 117, 100, 105, 111, 95, 80, 114, 111, 95, 50, 48, 49, 57, 46, 122,
            105, 112, 32, 32, 32, 104, 116, 116, 112, 115, 58, 47, 47, 115, 111, 102, 116, 119, 97, 114,
            101, 46, 110, 102, 117, 46, 101, 100, 117, 46, 116, 119, 47, 68, 101, 118, 101, 108, 111, 112,
            101, 114, 47, 86, 105, 115, 117, 97, 108, 37, 50, 48, 83, 116, 117, 100, 105, 111, 47, 116,
            119, 47, 86, 105, 115, 117, 97, 108, 95, 83, 116, 117, 100, 105, 111, 95, 80, 114, 111, 95,
            50, 48, 49, 55, 46, 122, 105, 112, 32, 32, 32, 104, 116, 116, 112, 115, 58, 47, 47, 115,
            111, 102, 116, 119, 97, 114, 101, 46, 110, 102, 117, 46, 101, 100, 117, 46, 116, 119, 47, 68,
            101, 118, 101, 108, 111, 112, 101, 114, 47, 86, 105, 115, 117, 97, 108, 37, 50, 48, 83, 116,
            117, 100, 105, 111, 47, 116, 119, 47, 86, 105, 115, 117, 97, 108, 95, 83, 116, 117, 100, 105,
            111, 95, 80, 114, 111, 95, 50, 48, 49, 53, 46, 122, 105, 112, 32, 32, 32, 104, 116, 116,
            112, 115, 58, 47, 47, 115, 111, 102, 116, 119, 97, 114, 101, 46, 110, 102, 117, 46, 101, 100,
            117, 46, 116, 119, 47, 68, 101, 118, 101, 108, 111, 112, 101, 114, 47, 86, 105, 115, 117, 97,
            108, 37, 50, 48, 83, 116, 117, 100, 105, 111, 47, 101, 110, 47, 86, 105, 115, 117, 97, 108,
            95, 83, 116, 117, 100, 105, 111, 95, 80, 114, 111, 95, 50, 48, 49, 53, 46, 122, 105, 112,
            32, 32, 32, 104, 116, 116, 112, 115, 58, 47, 47, 115, 111, 102, 116, 119, 97, 114, 101, 46,
            110, 102, 117, 46, 101, 100, 117, 46, 116, 119, 47, 87, 105, 110, 100, 111, 119, 115, 47, 116,
            119, 47, 87, 105, 110, 49, 48, 95, 49, 57, 48, 57, 95, 54, 52, 66, 73, 84, 95, 67,
            72, 46, 73, 83, 79, 32, 104, 116, 116, 112, 115, 58, 47, 47, 115, 111, 102, 116, 119, 97,
            114, 101, 46, 110, 102, 117, 46, 101, 100, 117, 46, 116, 119, 47, 75, 77, 83, 47, 119, 105,
            110, 100, 111, 119, 115, 95, 107, 109, 115, 46, 98, 97, 116, 32, 32, 32, 104, 116, 116, 112,
            115, 58, 47, 47, 115, 111, 102, 116, 119, 97, 114, 101, 46, 110, 102, 117, 46, 101, 100, 117,
            46, 116, 119, 47, 79, 102, 102, 105, 99, 101, 47, 116, 119, 47, 79, 102, 102, 105, 99, 101,
            95, 80, 114, 111, 95, 80, 108, 117, 115, 95, 50, 48, 49, 54, 95, 54, 52, 67, 104, 46,
            105, 115, 111, 32, 104, 116, 116, 112, 115, 58, 47, 47, 115, 111, 102, 116, 119, 97, 114, 101,
            46, 110, 102, 117, 46, 101, 100, 117, 46, 116, 119, 47, 75, 77, 83, 47, 79, 102, 102, 105,
            99, 101, 95, 50, 48, 49, 54, 95, 75, 77, 83, 46, 98, 97, 116, 32, 10, 32, 104, 116,
            116, 112, 115, 58, 47, 47, 115, 111, 102, 116, 119, 97, 114, 101, 46, 110, 102, 117, 46, 101,
            100, 117, 46, 116, 119, 47, 65, 117, 116, 111, 100, 101, 115, 107, 47, 97, 117, 116, 111, 100,
            101, 115, 107, 46, 105, 115, 111, 32, 32, 32, 104, 116, 116, 112, 115, 58, 47, 47, 115, 111,
            102, 116, 119, 97, 114, 101, 46, 110, 102, 117, 46, 101, 100, 117, 46, 116, 119, 47, 102, 105,
            108, 101, 115, 47, 65, 85, 84, 79, 68, 69, 83, 75, 37, 69, 53, 37, 65, 69, 37, 56,
            57, 37, 69, 56, 37, 65, 51, 37, 57, 68, 37, 69, 54, 37, 57, 53, 37, 57, 57, 37,
            69, 53, 37, 65, 68, 37, 66, 56, 46, 112, 100, 102, 32, 32, 32, 50, 48, 48, 49, 58,
            50, 56, 56, 58, 54, 48, 48, 52, 58, 49, 58, 58, 49, 49, 53 >>),
         tags  |-> Str(<<>>),
         url   |-> Str(<<84, 111, 112, 105, 99, 50, 46, 104, 116, 109, 108>>)]),
    \* pages[13]: url 'Google.html', text of 103 code units
    Obj([title |-> Str(<<71, 111, 111, 103, 108, 101>>),
         text  |-> Str(<<
            26377, 38364, 32, 71, 111, 111, 103, 108, 101, 32, 30340, 30332, 23637, 27511, 21490, 58, 32, 32, 104, 116,
            116, 112, 115, 58, 47, 47, 101, 110, 46, 119, 105, 107, 105, 112, 101, 100, 105, 97, 46, 111,
            114, 103, 47, 119, 105, 107, 105, 47, 71, 111, 111, 103, 108, 101, 32, 32, 35531, 21508, 32068, 20180,
            32048, 38321, 35712, 36889, 20221, 36039, 26009, 24460, 44, 32, 23559, 35469, 28858, 37325, 40670, 30340, 36039, 26009, 25918, 20837,
            21508, 23416, 21729, 30340, 32, 98, 108, 111, 103, 103, 101, 114, 32, 32178, 35468, 20197, 21450, 20491, 20154, 32178,
            31449, 20013, 46 >>),
         tags  |-> Str(<<>>),
         url   |-> Str(<<71, 111, 111, 103, 108, 101, 46, 104, 116, 109, 108>>)]),
    \* pages[14]: url 'Flask.html', text of 47 code units
    Obj([title |-> Str(<<70, 108, 97, 115, 107>>),
         text  |-> Str(<<
            104, 116, 116, 112, 115, 58, 47, 47, 102, 108, 97, 115, 107, 46, 112, 97, 108, 108, 101, 116,
            115, 112, 114, 111, 106, 101, 99, 116, 115, 46, 99, 111, 109, 47, 101, 110, 47, 49, 46, 49,
            46, 120, 47, 32, 32, 32, 10 >>),
         tags  |-> Str(<<>>),
         url   |-> Str(<<70, 108, 97, 115, 107, 46, 104, 116, 109, 108>>)]),
    \* pages[15]: url 'Oauth2.html', text of 97 code units
    Obj([title |-> Str(<<79, 97, 117, 116, 104, 50>>),
         text  |-> Str(<<
            104, 116, 116, 112, 115, 58, 47, 47, 103, 105, 116, 104, 117, 98, 46, 99, 111, 109, 47, 122,
            113, 117, 101, 115, 116, 122, 47, 111, 109, 110, 105, 97, 117, 116, 104, 45, 103, 111, 111, 103,
            108, 101, 45, 111, 97, 117, 116, 104, 50, 32, 10, 32, 104, 116, 116, 112, 115, 58, 47, 47,
            103, 105, 116, 104, 117, 98, 46, 99, 111, 109, 47, 116, 104, 101, 112, 104, 112, 108, 101, 97,
            103, 117, 101, 47, 111, 97, 117, 116, 104, 50, 45, 103, 111, 111, 103, 108, 101 >>),
         tags  |-> Str(<<>>),
         url   |-> Str(<<79, 97, 117, 116, 104, 50, 46, 104, 116, 109, 108>>)]),
    \* pages[16]: url 'Calendar API.html', text of 56 code units
    Obj([title |-> Str(<<67, 97, 108, 101, 110, 100, 97, 114, 32, 65, 80, 73>>),
         text  |-> Str(<<
            104, 116, 116, 112, 115, 58, 47, 47, 103, 105, 116, 104, 117, 98, 46, 99, 111, 109, 47, 107,
            117, 122, 109, 111, 121, 101, 118, 47, 103, 111, 111, 103, 108, 101, 45, 99, 97, 108, 101, 110,
            100, 97, 114, 45, 115, 105, 109, 112, 108, 101, 45, 97, 112, 105, 32, 10 >>),
         tags  |-> Str(<<>>),
         url   |-> Str(<<
            67, 97, 108, 101, 110, 100, 97, 114, 32, 65, 80, 73, 46, 104, 116, 109, 108 >>)]),
    \* pages[17]: url 'Drive API.html', text of 39 code units
    Obj([title |-> Str(<<68, 114, 105, 118, 101, 32, 65, 80, 73>>),
         text  |-> Str(<<
            104, 116, 116, 112, 115, 58, 47, 47, 103, 105, 116, 104, 117, 98, 46, 99, 111, 109, 47, 105,
            116, 101, 114, 97, 116, 105, 118, 101, 47, 80, 121, 68, 114, 105, 118, 101, 50, 32, 32 >>),
         tags  |-> Str(<<>>),
         url   |-> Str(<<68, 114, 105, 118, 101, 32, 65, 80, 73, 46, 104, 116, 109, 108>>)]),
    \* pages[18]: url 'Web Site.html', text of 424 code units
    Obj([title |-> Str(<<87, 101, 98, 32, 83, 105, 116, 101>>),
         text  |-> Str(<<
            21033, 29992, 32, 71, 105, 116, 104, 117, 98, 32, 33287, 32, 71, 105, 116, 108, 97, 98, 32, 20489,
            20786, 24314, 31435, 20491, 20154, 32178, 38913, 32, 10, 32, 20309, 35586, 32178, 38555, 20839, 23481, 31649, 29702, 63, 32,
            10, 32, 87, 101, 98, 45, 98, 97, 115, 101, 100, 32, 67, 111, 110, 116, 101, 110, 116, 32,
            77, 97, 110, 97, 103, 101, 109, 101, 110, 116, 32, 10, 32, 67, 111, 110, 116, 101, 110, 116,
            63, 32, 10, 32, 51, 68, 32, 38646, 32068, 20214, 32, 10, 32, 104, 116, 116, 112, 115, 58, 47,
            47, 119, 119, 119, 46, 111, 110, 115, 104, 97, 112, 101, 46, 99, 111, 109, 32, 10, 32, 33521,
            25991, 23416, 32722, 32000, 37636, 32, 10, 32, 25976, 23416, 23416, 32722, 32000, 37636, 32, 10, 32, 23560, 26989, 35506,
            31243, 23416, 32722, 32000, 37636, 32, 10, 32, 86, 105, 100, 101, 111, 32, 10, 32, 104, 116, 116, 112,
            115, 58, 47, 47, 103, 105, 116, 104, 117, 98, 46, 99, 111, 109, 47, 83, 104, 97, 114, 101,
            88, 47, 83, 104, 97, 114, 101, 88, 32, 10, 32, 104, 116, 116, 112, 115, 58, 47, 47, 119,
            119, 119, 46, 98, 108, 101, 110, 100, 101, 114, 46, 111, 114, 103, 47, 32, 10, 32, 65, 117,
            100, 105, 111, 32, 10, 32, 104, 116, 116, 112, 115, 58, 47, 47, 119, 119, 119, 46, 97, 117,
            100, 97, 99, 105, 116, 121, 116, 101, 97, 109, 46, 111, 114, 103, 47, 32, 10, 32, 73, 109,
            97, 103, 101, 115, 32, 10, 32, 104, 116, 116, 112, 115, 58, 47, 47, 119, 119, 119, 46, 103,
            105, 109, 112, 46, 111, 114, 103, 47, 32, 10, 32, 104, 116, 116, 112, 115, 58, 47, 47, 105,
            110, 107, 115, 99, 97, 112, 101, 46, 111, 114, 103, 47, 32, 10, 32, 65, 110, 105, 109, 97,
            116, 105, 111, 110, 32, 10, 32, 71, 105, 116, 104, 117, 98, 32, 26159, 29978, 40636, 63, 32, 10,
            32, 71, 105, 116, 108, 97, 98, 32, 21448, 26159, 29978, 40636, 63, 32, 10, 32, 33258, 34892, 22312, 32,
            85, 98, 117, 110, 116, 117, 32, 25805, 20316, 31995, 32113, 19978, 23433, 35037, 32, 71, 105, 116, 108, 97,
            98, 63, 32, 10, 32, 85, 98, 117, 110, 116, 117, 32, 25805, 20316, 31995, 32113, 63, 32, 10, 32,
            23526, 39636, 31995, 32113, 32, 10, 32, 34395, 25836, 31995, 32113, 32, 10, 32, 86, 105, 114, 116, 117, 97,
            108, 98, 111, 120 >>),
         tags  |-> Str(<<>>),
         url   |-> Str(<<87, 101, 98, 32, 83, 105, 116, 101, 46, 104, 116, 109, 108>>)])
  >>
----------------------------------------------------------------------------
\* The scripts.  A script is the sequence of its statements; a statement
\*     <decl> <name> = { "<key>": [ <elems> ], ... };
\* is kept as its declaration keyword, the declared name and the properties of
\* the object literal in source order, each a key and the element list of the
\* array literal under it.

\* Variants of the scripts below, each the script as a slip of the content
\* pipeline would have written it.  PagesStmt is the statement of the files with
\* another element list.
PagesStmt(elems) ==
  [decl  |-> "var",
   name  |-> "tipuesearch",
   props |-> << [key |-> "pages", elems |-> elems] >>]

\* 'tags': [] in place of 'tags': '' in one record.
content_script_tags_array ==
  << PagesStmt([content_pages EXCEPT ![7].props.tags = Arr(<<>>)]) >>

\* An absolute url, '/Flask.html', in one record.
part_000_script_absolute_url ==
  << PagesStmt([part_000_pages EXCEPT ![15].props.url = Str(<<47>> \o @.chars)]) >>

\* No page was exported: "pages": [].
content_script_no_pages ==
  << PagesStmt(<<>>) >>

\* A second key beside "pages": {"pages": [...], "tags": []}.
content_script_second_key ==
  << [decl  |-> "var",
      name  |-> "tipuesearch",
      props |-> << [key |-> "pages", elems |-> content_pages],
                   [key |-> "tags", elems |-> <<>>] >>] >>

\* The empty tags field left out of one record.
part_000_script_missing_tags ==
  << PagesStmt([part_000_pages EXCEPT
                  ![8] = Obj([k \in {"title", "text", "url"} |-> @.props[k]])]) >>

\* A tag, 'w5', written into one record.
part_000_script_tagged ==
  << PagesStmt([part_000_pages EXCEPT ![12].props.tags = Str(<<119, 53>>)]) >>

\* The statement written twice in one file.
part_000_script_two_statements ==
  << PagesStmt(part_000_pages), PagesStmt(part_000_pages) >>

\* Every url written with the directory of the pages, 'content/About.html'.
part_000_script_moved ==
  << PagesStmt([i \in 1..Len(part_000_pages) |->
                  [part_000_pages[i] EXCEPT
                     !.props.url = Str(<<99, 111, 110, 116, 101, 110, 116, 47>> \o @.chars)]]) >>

\* let in place of var.
content_script_let ==
  << [decl  |-> "let",
      name  |-> "tipuesearch",
      props |-> << [key |-> "pages", elems |-> content_pages] >>] >>

\* 'About' exported twice, at the head of the array.
part_000_script_page_twice ==
  << PagesStmt(<<part_000_pages[1]>> \o part_000_pages) >>

\* The space of one url percent-encoded: 'Topic%201.html' for 'Topic 1'.
part_000_script_encoded_url ==
  << PagesStmt([part_000_pages EXCEPT
                  ![8].props.url =
                     Str(<<84, 111, 112, 105, 99, 37, 50, 48, 49, 46, 104, 116, 109, 108>>)]) >>

\* The first two pages exported in the other order.
content_script_swapped ==
  << PagesStmt(<<content_pages[2], content_pages[1]>> \o SubSeq(content_pages, 3, Len(content_pages))) >>

\* The variable of the file named otherwise: var tipuesearch_content = ...
part_000_script_other_name ==
  << [decl  |-> "var",
      name  |-> "tipuesearch_content",
      props |-> << [key |-> "pages", elems |-> part_000_pages] >>] >>

\* A page exported without its title.
content_script_untitled ==
  << PagesStmt([content_pages EXCEPT ![1].props.title = Str(<<>>)]) >>

content_script ==
  << [decl  |-> "var",
      name  |-> "tipuesearch",
      props |-> << [key |-> "pages", elems |-> content_pages] >>] >>

part_000_script ==
  << [decl  |-> "var",
      name  |-> "tipuesearch",
      props |-> << [key |-> "pages", elems |-> part_000_pages] >>] >>

Files == {"content/tipuesearch_content.js", "unnamed/part_000"}

Script(f) ==
  IF f = "content/tipuesearch_content.js" THEN content_script ELSE part_000_script

\* The names a script declares, and whether they meet a declaration already in
\* the page's global scope that the language does not let them share: a let or
\* const never shares a name, a var shares one with another var only.
DeclaredNames(f) == {Script(f)[i].name : i \in 1..Len(Script(f))}

Conflicts(f, g) ==
  \E i \in 1..Len(Script(f)) :
    /\ Script(f)[i].name \in DOMAIN g
    /\ \/ Script(f)[i].decl # "var"
       \/ g[Script(f)[i].name].decl # "var"

----------------------------------------------------------------------------
\* The page context.

VARIABLES
  globals,   \* the global scope: name -> [decl, value]
  pc,        \* "idle": no script is running; "eval": a script is running
  cur,       \* the file of the running script, "none" when idle
  stmt,      \* index of the statement the running script is at
  prop,      \* index of the property of its object literal being evaluated
  acc,       \* elements of that property's array literal evaluated so far
  obj,       \* the object under construction: key -> value, for the keys done
  loads,     \* the files whose script ran to its end, in load order
  writes,    \* number of writes scripts have made to a global binding
  errors     \* number of scripts that ended by throwing

vars == <<globals, pc, cur, stmt, prop, acc, obj, loads, writes, errors>>

NoProps == [k \in {} |-> Undefined]

\* The value of the global variable tipuesearch; undefined while it is not
\* declared or not yet assigned.
tipuesearch ==
  IF "tipuesearch" \in DOMAIN globals THEN globals["tipuesearch"].value ELSE Undefined

Init ==
  /\ globals = [n \in {} |-> [decl |-> "var", value |-> Undefined]]
  /\ pc = "idle"
  /\ cur = "none"
  /\ stmt = 0
  /\ prop = 0
  /\ acc = <<>>
  /\ obj = NoProps
  /\ loads = <<>>
  /\ writes = 0
  /\ errors = 0

\* The page starts the script of file f.  Its declarations are instantiated
\* before any statement runs: a conflicting declaration throws and no
\* statement runs; otherwise every declared name that has no binding yet gets
\* one, holding undefined.
Load(f) ==
  /\ pc = "idle"
  /\ Len(loads) + errors < MaxLoads
  /\ IF Conflicts(f, globals)
       THEN /\ errors' = errors + 1
            /\ UNCHANGED <<globals, pc, cur, stmt, prop, acc, obj, loads, writes>>
       ELSE /\ globals' =
                 [n \in DOMAIN globals \cup DeclaredNames(f) |->
                    IF n \in DOMAIN globals
                      THEN globals[n]
                      ELSE [decl  |-> Script(f)[CHOOSE i \in 1..Len(Script(f)) :
                                                 Script(f)[i].name = n].decl,
                            value |-> Undefined]]
            /\ pc' = "eval"
            /\ cur' = f
            /\ stmt' = 1
            /\ prop' = 1
            /\ acc' = <<>>
            /\ obj' = NoProps
            /\ UNCHANGED <<loads, writes, errors>>

\* The properties of the running statement's object literal.
CurProps == Script(cur)[stmt].props

\* The array literal of the current property evaluates its next element.
EvalElement ==
  /\ pc = "eval"
  /\ prop <= Len(CurProps)
  /\ Len(acc) < Len(CurProps[prop].elems)
  /\ acc' = Append(acc, CurProps[prop].elems[Len(acc) + 1])
  /\ UNCHANGED <<globals, pc, cur, stmt, prop, obj, loads, writes, errors>>

\* The array literal is complete: the array becomes the value of the current
\* key of the object under construction (a repeated key keeps the later value).
EvalProperty ==
  /\ pc = "eval"
  /\ prop <= Len(CurProps)
  /\ Len(acc) = Len(CurProps[prop].elems)
  /\ obj' = (CurProps[prop].key :> Arr(acc)) @@ obj
  /\ prop' = prop + 1
  /\ acc' = <<>>
  /\ UNCHANGED <<globals, pc, cur, stmt, loads, writes, errors>>

\* Assign as a merge: the new records are appended to the sequence already
\* under the key instead of the binding being given the new object.
Assign_merge ==
  /\ pc = "eval"
  /\ prop > Len(CurProps)
  /\ globals' =
       [globals EXCEPT ![Script(cur)[stmt].name].value =
          IF @.type = "object"
            THEN Obj([k \in DOMAIN obj |->
                        IF k \in DOMAIN @.props
                          THEN Arr(@.props[k].elems \o obj[k].elems)
                          ELSE obj[k]])
            ELSE Obj(obj)]
  /\ writes' = writes + 1
  /\ obj' = NoProps
  /\ IF stmt = Len(Script(cur))
       THEN /\ pc' = "idle"
            /\ cur' = "none"
            /\ stmt' = 0
            /\ prop' = 0
            /\ loads' = Append(loads, cur)
       ELSE /\ stmt' = stmt + 1
            /\ prop' = 1
            /\ UNCHANGED <<pc, cur, loads>>
  /\ UNCHANGED <<acc, errors>>

\* The object literal is complete: the object is written to the declared name.
\* After its last statement the script has run to its end.
Assign ==
  /\ pc = "eval"
  /\ prop > Len(CurProps)
  /\ globals' = [globals EXCEPT ![Script(cur)[stmt].name].value = Obj(obj)]
  /\ writes' = writes + 1
  /\ obj' = NoProps
  /\ IF stmt = Len(Script(cur))
       THEN /\ pc' = "idle"
            /\ cur' = "none"
            /\ stmt' = 0
            /\ prop' = 0
            /\ loads' = Append(loads, cur)
       ELSE /\ stmt' = stmt + 1
            /\ prop' = 1
            /\ UNCHANGED <<pc, cur, loads>>
  /\ UNCHANGED <<acc, errors>>

Next ==
  \/ \E f \in Files : Load(f)
  \/ EvalElement
  \/ EvalProperty
  \/ Assign

Spec == Init /\ [][Next]_vars

\* A started script runs to completion: the page never abandons one midway.
FairSpec == Spec /\ WF_vars(EvalElement) /\ WF_vars(EvalProperty) /\ WF_vars(Assign)

----------------------------------------------------------------------------
\* What the page context holds of the data.

\* Some script has run to its end.
Assigned == loads # <<>>

\* The sequence under "pages" of the loaded object.
LoadedPages == tipuesearch.props["pages"].elems

\* Every page record the page context holds: the elements of the loaded
\* sequence and the elements the running script has evaluated so far.
HeldRecords ==
  {acc[i] : i \in 1..Len(acc)} \cup
  (IF Assigned THEN {LoadedPages[i] : i \in 1..Len(LoadedPages)} ELSE {})

Fields == {"title", "text", "tags", "url"}

\* ".html" in code units.
DotHtml == <<46, 104, 116, 109, 108>>

EndsWith(s, suffix) ==
  /\ Len(s) >= Len(suffix)
  /\ SubSeq(s, Len(s) - Len(suffix) + 1, Len(s)) = suffix

IsAlpha(c) == c \in 65..90 \/ c \in 97..122

IsSchemeChar(c) == IsAlpha(c) \/ c \in 48..57 \/ c \in {43, 45, 46}

\* s starts with a URL scheme: a letter, then letters, digits, "+", "-", ".",
\* up to a ":".
HasScheme(s) ==
  \E i \in 2..Len(s) :
    /\ s[i] = 58
    /\ IsAlpha(s[1])
    /\ \A j \in 1..(i - 1) : IsSchemeChar(s[j])

----------------------------------------------------------------------------
\* C1: in each data file, the title, text, tags and url of every record are
\* all present and are all strings: whichever file's records the page holds,
\* loaded or being evaluated, each of the four fields has type string.
C1_FieldsAreStrings ==
  \A r \in HeldRecords :
    /\ r.type = "object"
    /\ \A k \in Fields : k \in DOMAIN r.props /\ r.props[k].type = "string"

\* The 12 records of content/tipuesearch_content.js are loaded, the 19 of
\* unnamed/part_000 are evaluated, and the empty text of 'Google' is a string.
C1_Witness ==
  /\ Assigned
  /\ Len(LoadedPages) = 12
  /\ Len(acc) = 19
  /\ LoadedPages[7].props.text = Str(<<>>)

\* C2: in each data file every url ends in ".html", has a non-empty part
\* before that suffix, does not start with "/" and has no scheme.
C2_UrlsAreRelativeHtml ==
  \A r \in HeldRecords :
    LET u == r.props.url.chars
    IN  /\ EndsWith(u, DotHtml)
        /\ Len(u) > Len(DotHtml)
        /\ u[1] # 47
        /\ ~HasScheme(u)

\* unnamed/part_000 is loaded; its second url starts with a non-ASCII code
\* unit and its 17th, 'Calendar API.html', holds a space.
C2_Witness ==
  /\ Assigned
  /\ Len(LoadedPages) = 19
  /\ LoadedPages[2].props.url.chars[1] = 19977
  /\ LoadedPages[17].props.url.chars[9] = 32

\* C3: in each data file the pages sequence is non-empty: once a file is
\* loaded, tipuesearch.pages holds at least one record.
C3_PagesNonEmpty ==
  Assigned => Len(LoadedPages) >= 1

\* Both files were loaded, unnamed/part_000 last, and 19 records are held.
C3_Witness ==
  /\ pc = "idle"
  /\ loads = <<"content/tipuesearch_content.js", "unnamed/part_000">>
  /\ Len(LoadedPages) = 19

\* C4: in each data file the value assigned to tipuesearch is an object with
\* exactly one key, "pages", and that key holds an ordered sequence: an array
\* whose elements are indexed 1..length without a gap.
C4_OneKeyHoldingSequence ==
  Assigned =>
    /\ tipuesearch.type = "object"
    /\ DOMAIN tipuesearch.props = {"pages"}
    /\ tipuesearch.props["pages"].type = "array"
    /\ DOMAIN tipuesearch.props["pages"].elems =
         1..Len(tipuesearch.props["pages"].elems)

\* content/tipuesearch_content.js was loaded last and its object holds the 12
\* records in source order, 'About' first and 'Web Site' last.
C4_Witness ==
  /\ Assigned
  /\ loads[Len(loads)] = "content/tipuesearch_content.js"
  /\ Cardinality(DOMAIN tipuesearch.props) = 1
  /\ LoadedPages[1].props.title = Str(<<65, 98, 111, 117, 116>>)
  /\ LoadedPages[12].props.title = Str(<<87, 101, 98, 32, 83, 105, 116, 101>>)

\* The value null.
Null == [type |-> "null"]

\* C5: the records are uniformly shaped: every record has exactly the field
\* set {title, text, tags, url}, and none of its fields is null or undefined.
C5_UniformRecords ==
  \A r \in HeldRecords :
    /\ DOMAIN r.props = Fields
    /\ \A k \in Fields : r.props[k] # Null /\ r.props[k] # Undefined

\* The running script has evaluated 'Topic 1' of unnamed/part_000, a record
\* content/tipuesearch_content.js does not have, with its four fields.
C5_Witness ==
  /\ cur = "unnamed/part_000"
  /\ Len(acc) = 8
  /\ acc[8].props.url = Str(<<84, 111, 112, 105, 99, 32, 49, 46, 104, 116, 109, 108>>)
  /\ Cardinality(DOMAIN acc[8].props) = 4

\* C6: in each data file the tags field of every record is the empty string.
C6_TagsEmpty ==
  \A r \in HeldRecords : r.props.tags = Str(<<>>)

\* All 19 records of unnamed/part_000 are loaded and the 12 of
\* content/tipuesearch_content.js are evaluated again: 31 tags, all held.
C6_Witness ==
  /\ Assigned
  /\ Len(LoadedPages) = 19
  /\ cur = "content/tipuesearch_content.js"
  /\ Len(acc) = 12
  /\ acc[12].props.tags.chars = <<>>

\* The file loaded last.
LastLoaded == loads[Len(loads)]

\* The value the one statement of file f assigns, read off its literal.
FileValue(f) == Obj("pages" :> Arr(Script(f)[1].props[1].elems))

C8_OneWritePerLoad ==
  /\ writes = Len(loads)
  /\ pc = "eval" => stmt = 1 /\ Len(Script(cur)) = 1
  /\ DOMAIN globals \subseteq {"tipuesearch"}

\* unnamed/part_000 ran to its end: one load, one write, the name bound.
C8_Witness ==
  /\ pc = "idle"
  /\ loads = <<"unnamed/part_000">>
  /\ writes = 1
  /\ DOMAIN globals = {"tipuesearch"}

\* C9: titles and urls repeat across the two files: when the records of one
\* file are loaded and the array of the other file is fully evaluated, some
\* record of the one and some record of the other have the same title and the
\* same url and are still different records.
C9_PairInBothFiles ==
  ( /\ Assigned
    /\ pc = "eval"
    /\ cur # LastLoaded
    /\ prop <= Len(CurProps)
    /\ Len(acc) = Len(CurProps[prop].elems) )
  => \E i \in 1..Len(acc), j \in 1..Len(LoadedPages) :
       /\ acc[i].props.title = LoadedPages[j].props.title
       /\ acc[i].props.url = LoadedPages[j].props.url
       /\ acc[i] # LoadedPages[j]

\* unnamed/part_000 is loaded and all 12 records of
\* content/tipuesearch_content.js are evaluated: 'About' / 'About.html' heads
\* both, with different text.
C9_Witness ==
  /\ Assigned
  /\ LastLoaded = "unnamed/part_000"
  /\ cur = "content/tipuesearch_content.js"
  /\ Len(acc) = 12
  /\ acc[1].props.url = LoadedPages[1].props.url
  /\ acc[1].props.title = LoadedPages[1].props.title
  /\ acc[1].props.text # LoadedPages[1].props.text

\* v is a well-formed index: an object whose "pages" is an array of objects
\* with the four fields, all strings.
WellFormed(v) ==
  /\ v.type = "object"
  /\ "pages" \in DOMAIN v.props
  /\ v.props["pages"].type = "array"
  /\ \A i \in 1..Len(v.props["pages"].elems) :
       LET r == v.props["pages"].elems[i]
       IN  /\ r.type = "object"
           /\ \A k \in Fields : k \in DOMAIN r.props /\ r.props[k].type = "string"

\* C10: no operation can fail: no script ever throws, every started load
\* runs to its end, and whenever a load has ended tipuesearch.pages is
\* defined and well-formed.
C10_LoadNeverFails ==
  /\ [](errors = 0)
  /\ []((pc = "idle" /\ Assigned) => WellFormed(tipuesearch))
  /\ [](pc = "eval" => <>(pc = "idle"))

\* The same file was loaded twice over, redeclaring the global, and nothing
\* was thrown.
C10_Witness ==
  /\ pc = "idle"
  /\ loads = <<"content/tipuesearch_content.js", "content/tipuesearch_content.js">>
  /\ errors = 0
  /\ WellFormed(tipuesearch)

\* No two records at different places of the sequence s share a url or a title.
DistinctUrlsAndTitles(s) ==
  \A i, j \in 1..Len(s) :
    i # j => /\ s[i].props.url # s[j].props.url
             /\ s[i].props.title # s[j].props.title

\* C11: within a single data file urls are pairwise distinct and titles are
\* pairwise distinct: neither the loaded sequence nor the records the running
\* script has evaluated so far hold a url or a title twice.
C11_DistinctWithinFile ==
  /\ DistinctUrlsAndTitles(acc)
  /\ Assigned => DistinctUrlsAndTitles(LoadedPages)

\* All 19 records of unnamed/part_000 are evaluated, 'Topic 1' and 'Topic2'
\* among them.
C11_Witness ==
  /\ cur = "unnamed/part_000"
  /\ Len(acc) = 19
  /\ acc[8].props.title = Str(<<84, 111, 112, 105, 99, 32, 49>>)
  /\ acc[13].props.title = Str(<<84, 111, 112, 105, 99, 50>>)

\* C12: in each data file the url of every record is its title followed by
\* ".html", code unit for code unit.
C12_UrlIsTitleDotHtml ==
  \A r \in HeldRecords : r.props.url.chars = r.props.title.chars \o DotHtml

\* 'Calendar API' of content/tipuesearch_content.js is evaluated: the space
\* of the title is the space of the url.
C12_Witness ==
  /\ cur = "content/tipuesearch_content.js"
  /\ Len(acc) = 10
  /\ acc[10].props.title.chars[9] = 32
  /\ acc[10].props.url.chars[9] = 32
  /\ Len(acc[10].props.url.chars) = Len(acc[10].props.title.chars) + 5

\* The urls of a sequence of records, in order.
Urls(s) == [i \in 1..Len(s) |-> s[i].props.url.chars]

\* s from place i on is a subsequence of t from place j on.
RECURSIVE IsSubseqFrom(_, _, _, _)
IsSubseqFrom(s, t, i, j) ==
  IF i > Len(s) THEN TRUE
  ELSE IF j > Len(t) THEN FALSE
  ELSE IF s[i] = t[j] THEN IsSubseqFrom(s, t, i + 1, j + 1)
  ELSE IsSubseqFrom(s, t, i, j + 1)

IsSubseq(s, t) == IsSubseqFrom(s, t, 1, 1)

\* C13: the urls of content/tipuesearch_content.js are a subsequence of the
\* urls of unnamed/part_000.  With unnamed/part_000 loaded, the urls the
\* script of the content file has evaluated so far are a subsequence of the
\* loaded urls; with the content file loaded and the array of unnamed/part_000
\* fully evaluated, the loaded urls are a subsequence of the evaluated ones.
C13_ContentUrlsSubsequence ==
  /\ ( /\ Assigned
       /\ LastLoaded = "unnamed/part_000"
       /\ cur = "content/tipuesearch_content.js" )
     => IsSubseq(Urls(acc), Urls(LoadedPages))
  /\ ( /\ Assigned
       /\ LastLoaded = "content/tipuesearch_content.js"
       /\ cur = "unnamed/part_000"
       /\ prop <= Len(CurProps)
       /\ Len(acc) = Len(CurProps[prop].elems) )
     => IsSubseq(Urls(LoadedPages), Urls(acc))

\* unnamed/part_000 is loaded and the content file has evaluated 'Google',
\* its 7th url and the 14th of the loaded ones: seven urls were skipped.
C13_Witness ==
  /\ Assigned
  /\ LastLoaded = "unnamed/part_000"
  /\ cur = "content/tipuesearch_content.js"
  /\ Len(acc) = 7
  /\ acc[7].props.url = LoadedPages[14].props.url
  /\ acc[6].props.url = LoadedPages[6].props.url

\* The records of the array literal of file f, as a set.
FileRecords(f) ==
  {Script(f)[1].props[1].elems[i] : i \in 1..Len(Script(f)[1].props[1].elems)}

\* C14: both files assign the same global, tipuesearch, and no other; once
\* both have been loaded, in either order, tipuesearch.pages is exactly the
\* sequence of the file loaded last: nothing is merged, and a record of the
\* other file is in it only if the last file holds that record too.
C14_LastLoadWins ==
  /\ DOMAIN globals \subseteq {"tipuesearch"}
  /\ (pc = "idle" /\ {loads[i] : i \in 1..Len(loads)} = Files) =>
       /\ LoadedPages = Script(LastLoaded)[1].props[1].elems
       /\ \A f \in Files \ {LastLoaded} :
            \A r \in FileRecords(f) :
              (\E i \in 1..Len(LoadedPages) : LoadedPages[i] = r)
                => r \in FileRecords(LastLoaded)

\* unnamed/part_000 then content/tipuesearch_content.js: 12 records are left,
\* and 'Topics', which only the first file has, is gone.
C14_Witness ==
  /\ pc = "idle"
  /\ loads = <<"unnamed/part_000", "content/tipuesearch_content.js">>
  /\ Len(LoadedPages) = 12
  /\ \A i \in 1..Len(LoadedPages) :
       LoadedPages[i].props.title # Str(<<84, 111, 112, 105, 99, 115>>)

\* C15: in each data file every title is a non-empty string, while text may
\* be empty: the fully evaluated array of content/tipuesearch_content.js
\* holds a record whose text is the empty string.
C15_TitleNonEmptyTextMayBeEmpty ==
  /\ \A r \in HeldRecords : Len(r.props.title.chars) >= 1
  /\ ( /\ cur = "content/tipuesearch_content.js"
       /\ prop <= Len(CurProps)
       /\ Len(acc) = Len(CurProps[prop].elems) )
     => \E i \in 1..Len(acc) : acc[i].props.text = Str(<<>>)

\* 'Google' of content/tipuesearch_content.js is evaluated: a title of six
\* code units over an empty text.
C15_Witness ==
  /\ cur = "content/tipuesearch_content.js"
  /\ Len(acc) = 7
  /\ acc[7].props.title = Str(<<71, 111, 111, 103, 108, 101>>)
  /\ acc[7].props.text.chars = <<>>

====
